---------------------------- MODULE Spec2Model ----------------------------
(***************************************************************************)
(* The policy engine of AIFirewall (src/backend/policy_engine.py) and the  *)
(* callers that derive a verdict from its result (src/backend/main.py,     *)
(* src/ai_firewall_cli.py), as a state machine.                            *)
(*                                                                         *)
(* Text is kept as TLA+ strings, which are sequences of characters: Len,   *)
(* SubSeq and \o act on them as str indexing, slicing and + do in Python.  *)
(***************************************************************************)
EXTENDS Integers, Sequences, FiniteSets, TLC

(***************************************************************************)
(* Bounds of the model.                                                    *)
(***************************************************************************)
\* the most operations one behaviour performs on the engine
MaxOps == 3

\* the most issues in a list handed to the analyzer's scoring
MaxHits == 6

\* the most calls the threads of one engine make
MaxCalls == 2

(***************************************************************************)
(* Characters and strings.                                                 *)
(***************************************************************************)
CharAt(s, i) == SubSeq(s, i, i)

UpperLetters == "ABCDEFGHIJKLMNOPQRSTUVWXYZ"

LowerLetters == "abcdefghijklmnopqrstuvwxyz"

Digits == "0123456789"

RECURSIVE IndexOf(_, _, _)
\* least j >= i with s[j] = c, 0 when there is none
IndexOf(s, c, i) ==
    IF i > Len(s) THEN 0
    ELSE IF CharAt(s, i) = c THEN i
    ELSE IndexOf(s, c, i + 1)

\* str.lower() of one character
LowerChar(c) ==
    LET k == IndexOf(UpperLetters, c, 1)
    IN  IF k = 0 THEN c ELSE CharAt(LowerLetters, k)

RECURSIVE Lower(_)
\* str.lower()
Lower(s) == IF s = "" THEN "" ELSE LowerChar(Head(s)) \o Lower(Tail(s))

\* the characters \w matches
IsWordChar(c) ==
    \/ IndexOf(LowerLetters, c, 1) # 0
    \/ IndexOf(UpperLetters, c, 1) # 0
    \/ IndexOf(Digits, c, 1) # 0
    \/ c = "_"

\* the characters \s matches (of those a line can hold)
IsSpaceChar(c) == c \in {" ", "\t"}

\* str.isalnum() of one ASCII character
IsAlnumChar(c) == IsWordChar(c) /\ c # "_"

\* s[i:i+len(t)] == t
StartsAt(s, t, i) ==
    /\ i + Len(t) - 1 <= Len(s)
    /\ SubSeq(s, i, i + Len(t) - 1) = t

RECURSIVE ContainsFrom(_, _, _)
ContainsFrom(s, t, i) ==
    IF i + Len(t) - 1 > Len(s) THEN FALSE
    ELSE IF StartsAt(s, t, i) THEN TRUE
    ELSE ContainsFrom(s, t, i + 1)

\* t in s
Contains(s, t) == ContainsFrom(s, t, 1)

RECURSIVE Replace(_, _, _)
\* s.replace(c, t) for a one-character c
Replace(s, c, t) ==
    IF s = "" THEN ""
    ELSE (IF Head(s) = c THEN t ELSE Head(s)) \o Replace(Tail(s), c, t)

RECURSIVE LStrip(_)
LStrip(s) == IF s # "" /\ IsSpaceChar(Head(s)) THEN LStrip(Tail(s)) ELSE s

RECURSIVE RStrip(_)
RStrip(s) ==
    IF s # "" /\ IsSpaceChar(CharAt(s, Len(s)))
    THEN RStrip(SubSeq(s, 1, Len(s) - 1))
    ELSE s

\* str.strip()
Strip(s) == RStrip(LStrip(s))


(***************************************************************************)
(* Regular expressions (Python's re, flag IGNORECASE), for the syntax the  *)
(* rules of this model use: literals, \-escapes, \w \s \d, ".", one-level  *)
(* character sets [..], one-level groups of alternatives (a|b), the        *)
(* negative lookahead (?!a|b), the word boundary \b, and the greedy        *)
(* quantifiers * + ? {m,}.  A compiled pattern is a sequence of atoms; an  *)
(* atom of kind "err" stands for re.error raised by the compiler.          *)
(* Outside this syntax, and used by no pattern here: anchors, {m} and      *)
(* {m,n}, nested groups, the other (?...) groups, ranges in sets, lazy     *)
(* quantifiers, the letter escapes other than \w \s \d \b.                 *)
(***************************************************************************)
Atom(k, c, alts, q) == [k |-> k, c |-> c, alts |-> alts, q |-> q]

RECURSIVE IndexOfUnescaped(_, _, _)
\* least j >= i with p[j] = c that no backslash escapes, 0 when there is none
IndexOfUnescaped(p, c, i) ==
    IF i > Len(p) THEN 0
    ELSE IF CharAt(p, i) = "\\" THEN IndexOfUnescaped(p, c, i + 2)
    ELSE IF CharAt(p, i) = c THEN i
    ELSE IndexOfUnescaped(p, c, i + 1)

RECURSIVE Unescape(_)
\* the members of a character set: its text with the escaping backslashes dropped
Unescape(s) ==
    IF s = "" THEN ""
    ELSE IF Head(s) = "\\" /\ Len(s) >= 2
         THEN CharAt(s, 2) \o Unescape(SubSeq(s, 3, Len(s)))
         ELSE Head(s) \o Unescape(Tail(s))

RECURSIVE SplitAlternatives(_)
\* the alternatives of a group's text, split at each unescaped "|"
SplitAlternatives(s) ==
    LET j == IndexOfUnescaped(s, "|", 1)
    IN  IF j = 0 THEN <<s>>
        ELSE <<SubSeq(s, 1, j - 1)>> \o SplitAlternatives(SubSeq(s, j + 1, Len(s)))

RECURSIVE ParseNat(_)
\* int(s) for a string of digits
ParseNat(s) ==
    IF s = "" THEN 0
    ELSE 10 * ParseNat(SubSeq(s, 1, Len(s) - 1)) + (IndexOf(Digits, CharAt(s, Len(s)), 1) - 1)

RECURSIVE NatStr(_)
\* str(n) for an integer n >= 0
NatStr(n) ==
    IF n < 10 THEN SubSeq(Digits, n + 1, n + 1)
    ELSE NatStr(n \div 10) \o SubSeq(Digits, (n % 10) + 1, (n % 10) + 1)

\* the text from the "{" at i to its "}" if it is a quantifier {m,}, else ""
OpenRepeatAt(p, i) ==
    LET close == IndexOf(p, "}", i)
        body == SubSeq(p, i + 1, close - 1)
    IN  IF /\ CharAt(p, i) = "{"
           /\ close # 0
           /\ Len(body) >= 1
           /\ CharAt(body, Len(body)) = ","
           /\ \A k \in 1..(Len(body) - 1) : IndexOf(Digits, CharAt(body, k), 1) # 0
        THEN SubSeq(p, i, close)
        ELSE ""

\* the least number of repetitions a quantifier asks for
LeastOf(q) ==
    CASE q = "*" -> 0
      [] q = "?" -> 0
      [] q = "+" -> 1
      [] q = "1" -> 1
      [] OTHER -> ParseNat(SubSeq(q, 2, Len(q) - 2))

RECURSIVE CompileFrom(_, _)
\* sre_parse on p[i:]: the atoms, each with the quantifier that follows it
CompileFrom(p, i) ==
    IF i > Len(p) THEN <<>>
    ELSE
    LET c == CharAt(p, i)
        d == CharAt(p, i + 1)
        closeSet == IndexOfUnescaped(p, "]", i + 1)
        closeGrp == IndexOfUnescaped(p, ")", i + 1)
        \* the atom at i, without its quantifier, and the index after it
        one ==
            IF c = "\\" THEN
                IF i = Len(p) THEN [a |-> Atom("err", "bad escape (end of pattern)", <<>>, "1"), n |-> i + 1]
                ELSE IF d = "w" THEN [a |-> Atom("word", "", <<>>, "1"), n |-> i + 2]
                ELSE IF d = "s" THEN [a |-> Atom("space", "", <<>>, "1"), n |-> i + 2]
                ELSE IF d = "d" THEN [a |-> Atom("digit", "", <<>>, "1"), n |-> i + 2]
                ELSE IF d = "b" THEN [a |-> Atom("boundary", "", <<>>, "1"), n |-> i + 2]
                ELSE IF IsAlnumChar(d) THEN [a |-> Atom("err", "bad escape", <<>>, "1"), n |-> i + 2]
                ELSE [a |-> Atom("lit", d, <<>>, "1"), n |-> i + 2]
            ELSE IF c = "[" THEN
                IF closeSet = 0 THEN [a |-> Atom("err", "unterminated character set", <<>>, "1"), n |-> Len(p) + 1]
                ELSE [a |-> Atom("set", Unescape(SubSeq(p, i + 1, closeSet - 1)), <<>>, "1"), n |-> closeSet + 1]
            ELSE IF c = "(" THEN
                IF closeGrp = 0 THEN [a |-> Atom("err", "missing ), unterminated subpattern", <<>>, "1"), n |-> Len(p) + 1]
                ELSE LET ahead == SubSeq(p, i + 1, i + 2) = "?!"
                         alts == SplitAlternatives(SubSeq(p, IF ahead THEN i + 3 ELSE i + 1, closeGrp - 1))
                     IN  [a |-> Atom(IF ahead THEN "not_ahead" ELSE "alt", "",
                                     [k \in 1..Len(alts) |-> CompileFrom(alts[k], 1)], "1"),
                          n |-> closeGrp + 1]
            ELSE IF c = ")" THEN [a |-> Atom("err", "unbalanced parenthesis", <<>>, "1"), n |-> i + 1]
            ELSE IF c \in {"*", "+", "?"} THEN [a |-> Atom("err", "nothing to repeat", <<>>, "1"), n |-> i + 1]
            ELSE IF c = "." THEN [a |-> Atom("any", "", <<>>, "1"), n |-> i + 1]
            ELSE [a |-> Atom("lit", c, <<>>, "1"), n |-> i + 1]
        quant == CharAt(p, one.n)
        open == OpenRepeatAt(p, one.n)
    IN  IF one.n <= Len(p) /\ quant \in {"*", "+", "?"} /\ one.a.k # "err"
        THEN <<[one.a EXCEPT !.q = quant]>> \o CompileFrom(p, one.n + 1)
        ELSE IF one.n <= Len(p) /\ open # "" /\ one.a.k # "err"
        THEN <<[one.a EXCEPT !.q = open]>> \o CompileFrom(p, one.n + Len(open))
        ELSE <<one.a>> \o CompileFrom(p, one.n)

\* re.compile(p)
Compile(p) == CompileFrom(p, 1)

RECURSIVE IsValidRegex(_)
\* re.compile raised no re.error
IsValidRegex(atoms) ==
    \A k \in 1..Len(atoms) :
        /\ atoms[k].k # "err"
        /\ \A j \in 1..Len(atoms[k].alts) : IsValidRegex(atoms[k].alts[j])

\* one character against one atom, ignoring case
AtomMatches(a, c) ==
    CASE a.k = "lit" -> LowerChar(c) = LowerChar(a.c)
      [] a.k = "any" -> TRUE
      [] a.k = "word" -> IsWordChar(c)
      [] a.k = "space" -> IsSpaceChar(c)
      [] a.k = "digit" -> IndexOf(Digits, c, 1) # 0
      [] a.k = "set" -> IndexOf(Lower(a.c), LowerChar(c), 1) # 0
      [] OTHER -> FALSE

RECURSIVE RunLength(_, _, _)
\* how many characters of s from p on match atom a
RunLength(a, s, p) ==
    IF p <= Len(s) /\ AtomMatches(a, CharAt(s, p)) THEN 1 + RunLength(a, s, p + 1) ELSE 0

RECURSIVE MatchEnd(_, _, _, _)
RECURSIVE TryRepeat(_, _, _, _, _, _)
RECURSIVE TryAlternatives(_, _, _, _, _, _)
\* The backtracking matcher: the index after the match of atoms that starts at
\* s[p] and ends at minEnd or later, the first one in the engine's order of
\* preference (greedy); 0 when there is none.
MatchEnd(atoms, s, p, minEnd) ==
    IF atoms = <<>> THEN (IF p >= minEnd THEN p ELSE 0)
    ELSE
    LET a == Head(atoms)
        rest == Tail(atoms)
        run == RunLength(a, s, p)
        \* \b: a word character on exactly one side of the position
        at_boundary ==
            (p > 1 /\ IsWordChar(CharAt(s, p - 1))) # (p <= Len(s) /\ IsWordChar(CharAt(s, p)))
    IN  IF a.k = "alt" THEN TryAlternatives(a.alts, 1, rest, s, p, minEnd)
        ELSE IF a.k = "boundary" THEN
            IF at_boundary THEN MatchEnd(rest, s, p, minEnd) ELSE 0
        ELSE IF a.k = "not_ahead" THEN
            IF TryAlternatives(a.alts, 1, <<>>, s, p, p) = 0
            THEN MatchEnd(rest, s, p, minEnd) ELSE 0
        ELSE IF a.q = "1" THEN
            IF run >= 1 THEN MatchEnd(rest, s, p + 1, minEnd) ELSE 0
        ELSE IF a.q = "?" THEN TryRepeat(rest, s, p, IF run >= 1 THEN 1 ELSE 0, 0, minEnd)
        ELSE TryRepeat(rest, s, p, run, LeastOf(a.q), minEnd)

TryRepeat(rest, s, p, k, least, minEnd) ==
    IF k < least THEN 0
    ELSE LET e == MatchEnd(rest, s, p + k, minEnd)
         IN  IF e # 0 THEN e ELSE TryRepeat(rest, s, p, k - 1, least, minEnd)

TryAlternatives(alts, k, rest, s, p, minEnd) ==
    IF k > Len(alts) THEN 0
    ELSE LET e == MatchEnd(alts[k] \o rest, s, p, minEnd)
         IN  IF e # 0 THEN e ELSE TryAlternatives(alts, k + 1, rest, s, p, minEnd)

RECURSIVE FindIterFrom(_, _, _, _)
\* re.finditer: the matched texts (match.group()) left to right, not
\* overlapping; after an empty match the next one must end further on.
FindIterFrom(atoms, s, pos, mustAdvance) ==
    IF pos > Len(s) + 1 THEN <<>>
    ELSE LET e == MatchEnd(atoms, s, pos, IF mustAdvance THEN pos + 1 ELSE pos)
         IN  IF e = 0 THEN FindIterFrom(atoms, s, pos + 1, FALSE)
             ELSE <<SubSeq(s, pos, e - 1)>> \o FindIterFrom(atoms, s, e, e = pos)

\* [m.group() for m in re.finditer(pattern, line, re.IGNORECASE)], pattern compiled
FindIter(atoms, line) == FindIterFrom(atoms, line, 1, FALSE)

\* re.search(pattern, line, re.IGNORECASE) is not None, pattern compiled
Search(atoms, line) == \E st \in 1..(Len(line) + 1) : MatchEnd(atoms, line, st, st) # 0

\* the characters re.escape puts a backslash before
ReSpecialChars == "()[]{}?*+-|^$\\.&~# \t"

RECURSIVE ReEscape(_)
\* re.escape(s)
ReEscape(s) ==
    IF s = "" THEN ""
    ELSE (IF IndexOf(ReSpecialChars, Head(s), 1) # 0 THEN "\\" \o Head(s) ELSE Head(s))
         \o ReEscape(Tail(s))

RECURSIVE Fnmatch(_, _)
\* fnmatch.fnmatch(name, pat) on a POSIX system (no case folding): "*" is any
\* run of characters, "?" any one character, [seq] and [!seq] one character
\* in or not in seq (no ranges), anything else itself.
Fnmatch(name, pat) ==
    IF pat = "" THEN name = ""
    ELSE
    LET c == Head(pat)
        neg == Len(pat) >= 2 /\ CharAt(pat, 2) = "!"
        first == IF neg THEN 3 ELSE 2
        \* a "]" right after the opening is a member, not the end
        close == IndexOf(pat, "]", first + 1)
        members == SubSeq(pat, first, close - 1)
    IN  IF c = "*" THEN
            \/ Fnmatch(name, Tail(pat))
            \/ name # "" /\ Fnmatch(Tail(name), pat)
        ELSE IF c = "?" THEN name # "" /\ Fnmatch(Tail(name), Tail(pat))
        ELSE IF c = "[" /\ close # 0 THEN
            /\ name # ""
            /\ (IndexOf(members, Head(name), 1) # 0) # neg
            /\ Fnmatch(Tail(name), SubSeq(pat, close + 1, Len(pat)))
        ELSE name # "" /\ Head(name) = c /\ Fnmatch(Tail(name), Tail(pat))

(***************************************************************************)
(* Values.  An Optional is None (the empty tuple) or Some(x); a dict is a  *)
(* function from its keys; a dict that keeps insertion order and is        *)
(* iterated (the rule store) is the sequence of its values.                *)
(***************************************************************************)
None == <<>>

Some(x) == <<x>>

EmptyDict == [k \in {} |-> ""]

\* d.get(k, default)
Get(d, k, default) == IF k \in DOMAIN d THEN d[k] ELSE default

RECURSIVE Flatten(_)
\* the concatenation of a sequence of sequences (a loop that extends a list)
Flatten(ss) == IF ss = <<>> THEN <<>> ELSE Head(ss) \o Flatten(Tail(ss))

RECURSIVE SplitLines(_)
\* code.split('\n')
SplitLines(s) ==
    LET j == IndexOf(s, "\n", 1)
    IN  IF j = 0 THEN <<s>>
        ELSE <<SubSeq(s, 1, j - 1)>> \o SplitLines(SubSeq(s, j + 1, Len(s)))

PolicySeverity == {"low", "medium", "high", "critical"}

PolicyAction == {"warn", "block", "log"}

\* the fields of the PolicyRule dataclass that have a default, with it
RuleFieldDefaults ==
    [ enabled |-> TRUE,
      patterns |-> <<>>,
      forbidden_imports |-> <<>>,
      forbidden_functions |-> <<>>,
      forbidden_directories |-> <<>>,
      forbidden_env_vars |-> <<>>,
      forbidden_file_operations |-> <<>>,
      allowed_exceptions |-> <<>>,
      context_conditions |-> EmptyDict,
      custom_ast_checks |-> <<>>,
      category |-> "custom",
      tags |-> <<>> ]

RuleFields == {"id", "name", "description", "severity", "action"} \cup DOMAIN RuleFieldDefaults

\* PolicyRule(**given): the dataclass constructor, which checks no field
PolicyRule(given) ==
    [f \in RuleFields |-> IF f \in DOMAIN given THEN given[f] ELSE RuleFieldDefaults[f]]

\* a violation that carries the dataclass defaults of a rule (medium, warn) in
\* place of its own rule's severity and action
PolicyViolationUnlabelled(rule, description, line_number, matched_content, suggestion) ==
    [ rule_id |-> rule.id,
      rule_name |-> rule.name,
      severity |-> "medium",
      action |-> "warn",
      description |-> description,
      line_number |-> line_number,
      column_number |-> None,
      matched_content |-> matched_content,
      suggestion |-> suggestion,
      policy_category |-> rule.category ]

\* PolicyViolation(...): column_number is never given
PolicyViolation(rule, description, line_number, matched_content, suggestion) ==
    [ rule_id |-> rule.id,
      rule_name |-> rule.name,
      severity |-> rule.severity,
      action |-> rule.action,
      description |-> description,
      line_number |-> line_number,
      column_number |-> None,
      matched_content |-> matched_content,
      suggestion |-> suggestion,
      policy_category |-> rule.category ]

\* the rules _create_default_policies installs, in the order of its dict
DefaultRules ==
    << PolicyRule([
        id |-> "prod_env_modification",
        name |-> "Production Environment Modification",
        description |-> "Prevents modification of production environment variables",
        severity |-> "critical",
        action |-> "block",
        forbidden_env_vars |-> <<"PROD_*", "PRODUCTION_*", "*_PROD", "*_PRODUCTION">>,
        patterns |-> <<
            "os\\.environ\\[[\\'\"]PROD",
            "os\\.environ\\[[\\'\"]\\w*PROD",
            "setenv.*PROD",
            "export.*PROD" >>,
        category |-> "environment" ]),
       PolicyRule([
        id |-> "sensitive_directory_access",
        name |-> "Sensitive Directory Access",
        description |-> "Prevents access to sensitive system directories",
        severity |-> "high",
        action |-> "warn",
        forbidden_directories |-> <<"/etc/*", "/sys/*", "/proc/*", "/root/*", "C:\\Windows\\*">>,
        patterns |-> <<
            "open\\([\\'\\\"]/etc/",
            "open\\([\\'\\\"]/sys/",
            "open\\([\\'\\\"]/proc/",
            "Path\\([\\'\\\"]/etc/" >>,
        category |-> "filesystem" ]),
       PolicyRule([
        id |-> "dangerous_libraries",
        name |-> "Dangerous Library Usage",
        description |-> "Prevents usage of potentially dangerous libraries",
        severity |-> "high",
        action |-> "warn",
        forbidden_imports |-> <<"pickle", "dill", "marshal", "shelve">>,
        patterns |-> <<
            "import\\s+pickle",
            "from\\s+pickle\\s+import",
            "import\\s+marshal",
            "subprocess\\.call.*shell=True" >>,
        category |-> "imports" ]),
       PolicyRule([
        id |-> "database_credential_exposure",
        name |-> "Database Credential Exposure",
        description |-> "Prevents hardcoded database credentials",
        severity |-> "critical",
        action |-> "block",
        patterns |-> <<
            "password\\s*=\\s*[\\'\\\"]\\w+[\\'\"]",
            "passwd\\s*=\\s*[\\'\\\"]\\w+[\\'\"]",
            "mysql://.*:.*@",
            "postgresql://.*:.*@",
            "mongodb://.*:.*@" >>,
        category |-> "credentials" ]),
       PolicyRule([
        id |-> "file_system_modifications",
        name |-> "File System Modifications",
        description |-> "Controls file system modification operations",
        severity |-> "medium",
        action |-> "warn",
        forbidden_file_operations |-> <<"rm -rf", "rmdir", "del /f", "format">>,
        patterns |-> <<
            "os\\.remove\\(",
            "os\\.rmdir\\(",
            "shutil\\.rmtree\\(",
            "pathlib.*\\.unlink\\(",
            "subprocess.*rm\\s+-rf" >>,
        category |-> "filesystem" ]),
       PolicyRule([
        id |-> "network_requests",
        name |-> "External Network Requests",
        description |-> "Controls external network access",
        severity |-> "medium",
        action |-> "log",
        patterns |-> <<
            "requests\\.(get|post|put|delete)",
            "urllib\\.request",
            "http\\.client",
            "socket\\.connect" >>,
        allowed_exceptions |-> <<"localhost", "127.0.0.1", "*.internal.com">>,
        category |-> "network" ]) >>

\* the global settings _create_default_policies installs
DefaultGlobalSettings ==
    [ strict_mode |-> FALSE,
      log_violations |-> TRUE,
      auto_block_critical |-> TRUE,
      notification_webhook |-> None ]

(***************************************************************************)
(* The rule store: self.rules, a dict from rule id to rule.                *)
(***************************************************************************)
\* the position of rule_id in the store, 0 when it has none
RulePos(rs, rule_id) ==
    IF \E i \in 1..Len(rs) : rs[i].id = rule_id
    THEN CHOOSE i \in 1..Len(rs) : rs[i].id = rule_id
    ELSE 0

\* rule_id in self.rules
HasRule(rs, rule_id) == RulePos(rs, rule_id) # 0

RuleIds(rs) == {rs[i].id : i \in 1..Len(rs)}

\* self.rules[rule_id]
RuleOf(rs, rule_id) == rs[RulePos(rs, rule_id)]

\* d[key] = value on an insertion-ordered dict: an existing key keeps its place
DictSet(rs, rule) ==
    IF HasRule(rs, rule.id)
    THEN [rs EXCEPT ![RulePos(rs, rule.id)] = rule]
    ELSE Append(rs, rule)

\* del d[key]
DictDel(rs, rule_id) ==
    LET k == RulePos(rs, rule_id)
    IN  SubSeq(rs, 1, k - 1) \o SubSeq(rs, k + 1, Len(rs))

(***************************************************************************)
(* Results of calls that may raise.                                        *)
(***************************************************************************)
Ok(v) == [raised |-> "", value |-> v]

Raise(e) == [raised |-> e, value |-> <<>>]

(***************************************************************************)
(* PolicyEngine: the matchers.                                             *)
(***************************************************************************)
\* _is_exception_allowed(value, exceptions)
_is_exception_allowed(value, exceptions) ==
    \E k \in 1..Len(exceptions) : Fnmatch(value, exceptions[k])

\* _check_patterns(code, rule, lines): re.finditer compiles the pattern, and
\* its re.error is caught nowhere
_check_patterns(rule, lines) ==
    IF lines # <<>> /\ \E k \in 1..Len(rule.patterns) : ~IsValidRegex(Compile(rule.patterns[k]))
    THEN Raise("re.error")
    ELSE
    LET Flagged(m) == ~_is_exception_allowed(m, rule.allowed_exceptions)
        OfLine(pattern, line_num) ==
            LET found == SelectSeq(FindIter(Compile(pattern), lines[line_num]), Flagged)
            IN  [j \in 1..Len(found) |->
                    PolicyViolation(rule,
                        rule.description \o ": Pattern '" \o pattern \o "' matched",
                        line_num, found[j],
                        "Avoid using pattern '" \o pattern \o "' as it violates policy " \o rule.name)]
        OfPattern(pattern) == Flatten([n \in 1..Len(lines) |-> OfLine(pattern, n)])
    IN  Ok(Flatten([k \in 1..Len(rule.patterns) |-> OfPattern(rule.patterns[k])]))

\* _check_imports(ast_tree, rule); tree is the nodes of the tree in ast.walk order
_check_imports(tree, rule) ==
    LET imports == SelectSeq(tree, LAMBDA node : node.type \in {"Import", "ImportFrom"})
        ModuleName(node, alias) ==
            IF node.type = "ImportFrom" /\ node.module # None /\ node.module[1] # ""
            THEN node.module[1] \o "." \o alias
            ELSE alias
        OfName(node, module_name) ==
            LET hits == SelectSeq(rule.forbidden_imports,
                                  LAMBDA forbidden : Fnmatch(module_name, forbidden))
            IN  IF _is_exception_allowed(module_name, rule.allowed_exceptions) THEN <<>>
                ELSE [j \in 1..Len(hits) |->
                        PolicyViolation(rule,
                            rule.description \o ": Forbidden import '" \o module_name \o "'",
                            node.lineno, module_name,
                            "Import '" \o module_name \o "' is forbidden by policy " \o rule.name)]
        OfNode(node) ==
            Flatten([a \in 1..Len(node.names) |-> OfName(node, ModuleName(node, node.names[a]))])
    IN  Flatten([n \in 1..Len(imports) |-> OfNode(imports[n])])

RECURSIVE _get_function_name(_)
\* _get_function_name(node)
_get_function_name(node) ==
    IF node.t = "Name" THEN node.id
    ELSE IF node.t = "Attribute" THEN
        LET base == _get_function_name(node.value)
        IN  IF base # "" THEN base \o "." \o node.attr ELSE node.attr
    ELSE ""

\* _check_functions(ast_tree, rule)
_check_functions(tree, rule) ==
    LET calls == SelectSeq(tree, LAMBDA node : node.type = "Call")
        OfNode(node) ==
            LET func_name == _get_function_name(node.func)
                hits == SelectSeq(rule.forbidden_functions,
                                  LAMBDA forbidden : Fnmatch(func_name, forbidden))
            IN  IF _is_exception_allowed(func_name, rule.allowed_exceptions) THEN <<>>
                ELSE [j \in 1..Len(hits) |->
                        PolicyViolation(rule,
                            rule.description \o ": Forbidden function '" \o func_name \o "'",
                            node.lineno, func_name,
                            "Function '" \o func_name \o "' is forbidden by policy " \o rule.name)]
    IN  Flatten([n \in 1..Len(calls) |-> OfNode(calls[n])])

\* _check_ast_rules(ast_tree, rule): a placeholder that finds nothing
_check_ast_rules(tree, rule) == <<>>

\* the regular expressions _check_directory_access builds for one directory
DirectoryPatterns(forbidden_dir) ==
    LET e == ReEscape(Replace(forbidden_dir, "*", ".*"))
    IN  << "[\\'\\\"]" \o e \o "[\\'\"]",
           "Path\\([\\'\\\"]" \o e \o "[\\'\\\"]\\)",
           "open\\([\\'\\\"]" \o e \o "[\\'\\\"]\\)" >>

\* the regular expressions _check_env_vars builds for one variable
EnvVarPatterns(forbidden_var) ==
    LET e == ReEscape(Replace(forbidden_var, "*", ".*"))
    IN  << "os\\.environ\\[[\\'\\\"]" \o e \o "[\\'\\\"]\\]",
           "getenv\\([\\'\\\"]" \o e \o "[\\'\\\"]\\)",
           "export\\s+" \o e,
           "setenv\\([\\'\\\"]" \o e \o "[\\'\\\"]\\)" >>

\* The loop _check_directory_access and _check_env_vars share: per line, per
\* resource, one violation for each built pattern that re.search finds on the
\* line, unless the resource string itself is an allowed exception.  The last
\* three arguments are functions of the resource string.
ResourceScan(rule, lines, resources, patterns_of, describe, suggest) ==
    LET OfResource(line_num, resource) ==
            LET hits == SelectSeq(patterns_of[resource],
                                  LAMBDA pattern : Search(Compile(pattern), lines[line_num]))
            IN  IF _is_exception_allowed(resource, rule.allowed_exceptions) THEN <<>>
                ELSE [j \in 1..Len(hits) |->
                        PolicyViolation(rule, describe[resource], line_num,
                                        Strip(lines[line_num]), suggest[resource])]
        OfLine(line_num) ==
            Flatten([r \in 1..Len(resources) |-> OfResource(line_num, resources[r])])
    IN  Flatten([n \in 1..Len(lines) |-> OfLine(n)])

\* the elements of a list
Elements(seq) == {seq[k] : k \in 1..Len(seq)}

\* _check_directory_access(code, rule, lines)
_check_directory_access(rule, lines) ==
    LET dirs == Elements(rule.forbidden_directories)
    IN  ResourceScan(rule, lines, rule.forbidden_directories,
            [d \in dirs |-> DirectoryPatterns(d)],
            [d \in dirs |-> rule.description \o ": Access to forbidden directory '" \o d \o "'"],
            [d \in dirs |-> "Access to directory '" \o d \o "' is forbidden by policy " \o rule.name])

\* _check_env_vars(code, rule, lines)
_check_env_vars(rule, lines) ==
    LET vars_ == Elements(rule.forbidden_env_vars)
    IN  ResourceScan(rule, lines, rule.forbidden_env_vars,
            [v \in vars_ |-> EnvVarPatterns(v)],
            [v \in vars_ |-> rule.description \o ": Access to forbidden environment variable '" \o v \o "'"],
            [v \in vars_ |-> "Environment variable '" \o v \o "' access is forbidden by policy " \o rule.name])

\* _check_file_operations(code, rule, lines)
_check_file_operations(rule, lines) ==
    LET OfOp(line_num, forbidden_op) ==
            IF /\ Contains(Lower(lines[line_num]), Lower(forbidden_op))
               /\ ~_is_exception_allowed(forbidden_op, rule.allowed_exceptions)
            THEN << PolicyViolation(rule,
                        rule.description \o ": Forbidden file operation '" \o forbidden_op \o "'",
                        line_num, Strip(lines[line_num]),
                        "File operation '" \o forbidden_op \o "' is forbidden by policy " \o rule.name) >>
            ELSE <<>>
        OfLine(line_num) ==
            Flatten([r \in 1..Len(rule.forbidden_file_operations) |->
                        OfOp(line_num, rule.forbidden_file_operations[r])])
    IN  Flatten([n \in 1..Len(lines) |-> OfLine(n)])

\* truth value of an Optional[str]: neither None nor ""
Truthy(opt) == opt # None /\ opt[1] # ""

\* a context filter that looks at file_patterns alone
apply_file_patterns_only(violations, rule, context, file_path) ==
    LET cc == rule.context_conditions
        file_ok ==
            ("file_patterns" \in DOMAIN cc /\ Truthy(file_path))
                => \E k \in 1..Len(cc.file_patterns) : Fnmatch(file_path[1], cc.file_patterns[k])
    IN  SelectSeq(violations, LAMBDA violation : file_ok)

\* _apply_context_conditions(violations, rule, context, file_path)
_apply_context_conditions(violations, rule, context, file_path) ==
    LET cc == rule.context_conditions
        file_ok ==
            ("file_patterns" \in DOMAIN cc /\ Truthy(file_path))
                => \E k \in 1..Len(cc.file_patterns) : Fnmatch(file_path[1], cc.file_patterns[k])
        current_env == Get(context, "environment", "development")
        env_ok ==
            ("environment" \in DOMAIN cc)
                => \E k \in 1..Len(cc.environment) : cc.environment[k] = current_env
        should_include == file_ok /\ env_ok
    IN  IF DOMAIN cc = {} THEN violations
        ELSE SelectSeq(violations, LAMBDA violation : should_include)

\* _check_rule up to its context filter: what the matchers find for one rule,
\* or the exception that leaves them
run_matchers(code, rule, ast_tree) ==
    LET lines == SplitLines(code)
        by_pattern == _check_patterns(rule, lines)
        structural ==
            IF ast_tree # None
            THEN _check_imports(ast_tree[1], rule)
                 \o _check_functions(ast_tree[1], rule)
                 \o _check_ast_rules(ast_tree[1], rule)
            ELSE <<>>
    IN  IF by_pattern.raised # "" THEN by_pattern
        ELSE Ok(by_pattern.value
                \o structural
                \o _check_directory_access(rule, lines)
                \o _check_env_vars(rule, lines)
                \o _check_file_operations(rule, lines))

(***************************************************************************)
(* The code under analysis.  A sample is its text with what ast.parse      *)
(* makes of it: the exception it raises ("" for none) and, when it raises  *)
(* none, the Import, ImportFrom and Call nodes of the tree in ast.walk     *)
(* order (the only nodes the engine looks at).                             *)
(***************************************************************************)
Name(id) == [t |-> "Name", id |-> id]

Attribute(value, attr) == [t |-> "Attribute", value |-> value, attr |-> attr]

OtherExpr == [t |-> "Other"]

Import(names, lineno) == [type |-> "Import", names |-> names, module |-> None, lineno |-> lineno]

ImportFrom(module, names, lineno) ==
    [type |-> "ImportFrom", names |-> names, module |-> Some(module), lineno |-> lineno]

Call(func, lineno) == [type |-> "Call", func |-> func, lineno |-> lineno]

\* an integer literal
Constant(value) == [t |-> "Constant", value |-> value]

\* a for statement, iter being the expression it iterates over
For(iter, lineno) == [type |-> "For", iter |-> iter, lineno |-> lineno]

\* the expression range(args)
RangeCall(args) == [t |-> "Call", func |-> Name("range"), args |-> args]

Parsed(text, nodes) == [text |-> text, parse |-> "", nodes |-> nodes]

Unparsed(text, exception) == [text |-> text, parse |-> exception, nodes |-> <<>>]

\* the line of spec section 8 that writes a production variable
CodeProdEnv == Parsed("os.environ[\"PROD_DATABASE_URL\"] = \"x\"", <<>>)

\* test_policy_management's code
CodePickle ==
    Parsed("import pickle\ndata = pickle.loads(user_input)",
           << Import(<<"pickle">>, 1), Call(Attribute(Name("pickle"), "loads"), 2) >>)

\* the same import followed by an unclosed bracket: SyntaxError
CodeSyntaxError == Unparsed("import pickle\nx = (", "SyntaxError")

\* A string literal holding a lone surrogate (written here as <DC80>, the
\* character U+DC80; JSON's "\udc80" decodes to it): ast.parse cannot encode
\* the source and raises UnicodeEncodeError, a ValueError.
CodeSurrogate == Unparsed("import pickle\nx = '<DC80>'", "UnicodeEncodeError")

CodeSafe == Parsed("x = 1", <<>>)

\* a line of test_custom_policy's code
CodeTestData == Parsed("create_test_users(1000)", << Call(Name("create_test_users"), 1) >>)

\* a request to this host, and one to another host
CodeLocalhost ==
    Parsed("requests.get(\"http://localhost/x\")",
           << Call(Attribute(Name("requests"), "get"), 1) >>)

CodeExampleCom ==
    Parsed("requests.get(\"http://example.com\")",
           << Call(Attribute(Name("requests"), "get"), 1) >>)

\* four lines that the built-in rules find six violations in
CodeDangerous ==
    Parsed("import pickle\nos.environ[\"PROD_DATABASE_URL\"] = \"x\"\nopen(\"/etc/passwd\")\nshutil.rmtree(\"/\")",
           << Import(<<"pickle">>, 1), Call(Name("open"), 3),
              Call(Attribute(Name("shutil"), "rmtree"), 4) >>)

\* the line of test_safe_code's sample that holds "format" in isoformat()
CodeIsoformat ==
    Parsed("stamp = datetime.now().isoformat()",
           << Call(Attribute(OtherExpr, "isoformat"), 1),
              Call(Attribute(Name("datetime"), "now"), 1) >>)

\* a quoted path under /etc
CodeEtcPasswd == Parsed("path = \"/etc/passwd\"", <<>>)

\* the codes handed to the matchers one rule at a time
ProbeCodes == {CodeIsoformat, CodeEtcPasswd, CodeProdEnv, CodeSafe, CodePickle}

CodeSamples ==
    {CodeProdEnv, CodePickle, CodeSyntaxError, CodeSurrogate, CodeSafe, CodeTestData,
     CodeLocalhost, CodeExampleCom, CodeDangerous}

\* ast.parse(code): the tree, or the exception raised
ast_parse(code) ==
    IF code.parse = "" THEN Ok(code.nodes) ELSE Raise(code.parse)

(***************************************************************************)
(* Configuration files.  A file is its path, whether it exists, and what   *)
(* yaml.safe_load / json.load makes of its text: a config value, or the    *)
(* parser's exception.  A config is a dict; "policies" maps rule ids to    *)
(* dicts of rule data and is kept as the sequence of its (id, data) items. *)
(***************************************************************************)
EndsWith(s, suffix) ==
    Len(s) >= Len(suffix) /\ SubSeq(s, Len(s) - Len(suffix) + 1, Len(s)) = suffix

\* _parse_config's body of the loop: the rule of one item; PolicySeverity(x)
\* and PolicyAction(x) raise ValueError for a value that is no member
ParseRule(rule_id, rule_data) ==
    LET severity == Get(rule_data, "severity", "medium")
        action == Get(rule_data, "action", "warn")
    IN  IF severity \notin PolicySeverity \/ action \notin PolicyAction
        THEN Raise("ValueError")
        ELSE Ok(PolicyRule(
                [f \in (DOMAIN rule_data \cap RuleFields) \cup {"id", "name", "description"} |->
                    CASE f = "id" -> rule_id
                      [] f = "name" -> Get(rule_data, "name", rule_id)
                      [] f = "description" -> Get(rule_data, "description", "")
                      [] OTHER -> rule_data[f]]))

RECURSIVE ParseRules(_, _)
\* _parse_config's loop over the items: a rule that raises is skipped, and a
\* later item with the id of an earlier one cannot occur (the keys of a dict)
ParseRules(items, rs) ==
    IF items = <<>> THEN rs
    ELSE LET r == ParseRule(items[1].id, items[1].data)
         IN  ParseRules(Tail(items), IF r.raised = "" THEN DictSet(rs, r.value) ELSE rs)

\* _parse_config(config): the store and the settings it leaves
_parse_config(config) ==
    [ rules |-> ParseRules(Get(config, "policies", <<>>), <<>>),
      global_settings |-> Get(config, "global_settings", EmptyDict) ]

\* _create_default_policies(): the store and the settings it leaves
_create_default_policies ==
    [ rules |-> DefaultRules, global_settings |-> DefaultGlobalSettings ]

\* a load without the fallback: whatever the file, the store is what
\* _parse_config makes of the configuration it could read (nothing, if none)
load_policies_parse_only(file) ==
    _parse_config(IF file.loads.value = None THEN EmptyDict ELSE file.loads.value[1])

\* load_policies(config_path): the store and the settings it leaves
load_policies(file) ==
    LET is_yaml == EndsWith(file.path, ".yaml") \/ EndsWith(file.path, ".yml")
        is_json == EndsWith(file.path, ".json")
        failed ==
            \/ ~file.exists                         \* open: FileNotFoundError
            \/ ~(is_yaml \/ is_json)                \* ValueError
            \/ file.loads.raised # ""               \* the parser's error
            \/ file.loads.value = None              \* config.get: AttributeError
    IN  IF failed THEN _create_default_policies ELSE _parse_config(file.loads.value[1])

RECURSIVE StrLess(_, _)
\* a < b for two str: by the first character that differs, in code point order
\* (digits, capitals, the underscore, small letters), a proper prefix first
StrLess(a, b) ==
    LET order == Digits \o UpperLetters \o "_" \o LowerLetters
    IN  IF b = "" THEN FALSE
        ELSE IF a = "" THEN TRUE
        ELSE IF Head(a) = Head(b) THEN StrLess(Tail(a), Tail(b))
        ELSE IndexOf(order, Head(a), 1) < IndexOf(order, Head(b), 1)

\* the items of a dict of rule data as yaml.dump writes them and safe_load
\* reads them back: sorted by key (sort_keys is left at its default, True)
SortedItems(items) ==
    LET Rank(k) == 1 + Cardinality({j \in 1..Len(items) : StrLess(items[j].id, items[k].id)})
    IN  [n \in 1..Len(items) |-> items[CHOOSE k \in 1..Len(items) : Rank(k) = n]]

\* an export that leaves the enabled flag out of the rule data
export_config_without_enabled(rs, settings, output_path) ==
    LET RuleData(rule) == [f \in RuleFields \ {"id", "enabled"} |-> rule[f]]
        items == [k \in 1..Len(rs) |-> [id |-> rs[k].id, data |-> RuleData(rs[k])]]
        is_yaml == EndsWith(output_path, ".yaml") \/ EndsWith(output_path, ".yml")
    IN  [ path |-> output_path, exists |-> TRUE,
          loads |-> Ok(Some([ global_settings |-> settings,
                              policies |-> IF is_yaml THEN SortedItems(items) ELSE items ])) ]

\* export_config(output_path): the file it writes, as a later load reads it.
\* The values written are str, bool, None, lists of str and dicts with str
\* keys, which yaml.dump / safe_load and json.dump / load give back as they
\* were; a severity and an action are written as their .value
export_config(rs, settings, output_path) ==
    LET RuleData(rule) == [f \in RuleFields \ {"id"} |-> rule[f]]
        items == [k \in 1..Len(rs) |-> [id |-> rs[k].id, data |-> RuleData(rs[k])]]
        is_yaml == EndsWith(output_path, ".yaml") \/ EndsWith(output_path, ".yml")
    IN  [ path |-> output_path, exists |-> TRUE,
          loads |-> Ok(Some([ global_settings |-> settings,
                              policies |-> IF is_yaml THEN SortedItems(items) ELSE items ])) ]

\* no file at the default path policies/security_policies.yaml
FileMissing ==
    [ path |-> "policies/security_policies.yaml", exists |-> FALSE, loads |-> Raise("") ]

\* a file that is not YAML
FileMalformed ==
    [ path |-> "broken.yaml", exists |-> TRUE, loads |-> Raise("yaml.YAMLError") ]

\* an empty YAML file: safe_load returns None
FileEmpty ==
    [ path |-> "empty.yml", exists |-> TRUE, loads |-> Ok(None) ]

\* a configuration with two good rules and one whose severity is no member
FileTeam ==
    [ path |-> "team.json", exists |-> TRUE,
      loads |-> Ok(Some(
        [ global_settings |-> [strict_mode |-> TRUE],
          policies |-> <<
            [ id |-> "no_test_data",
              data |-> [ name |-> "No Test Data",
                         description |-> "Test data must not be created",
                         severity |-> "low",
                         action |-> "log",
                         patterns |-> <<"create_test_.*">>,
                         category |-> "testing" ] ],
            [ id |-> "legacy_rule",
              data |-> [ severity |-> "severe", patterns |-> <<"x = 1">> ] ],
            [ id |-> "dangerous_libraries",
              data |-> [ severity |-> "critical",
                         action |-> "block",
                         enabled |-> FALSE,
                         forbidden_imports |-> <<"pickle">> ] ] >> ])) ]

\* a file that open() refuses (PermissionError), raised in the same try
FileUnreadable ==
    [ path |-> "locked.yaml", exists |-> TRUE, loads |-> Raise("PermissionError") ]

\* a file that is neither .yaml, .yml nor .json: no parser is called
FileWrongType ==
    [ path |-> "policies.txt", exists |-> TRUE, loads |-> Raise("") ]

ConfigFiles ==
    {FileMissing, FileMalformed, FileEmpty, FileUnreadable, FileWrongType, FileTeam}

(***************************************************************************)
(* The inputs of the operations.                                           *)
(***************************************************************************)
\* test_custom_policy's rule
RuleCustomTest ==
    PolicyRule([
        id |-> "custom_test_rule",
        name |-> "Test Data Creation",
        description |-> "Prevents creation of test data in production",
        severity |-> "high",
        action |-> "warn",
        patterns |-> <<"create_test_.*", "generate_fake_.*", "\\.factory\\.create">>,
        context_conditions |-> [environment |-> <<"production">>],
        category |-> "testing" ])

\* a blocking rule that applies to the files of two globs
RuleSourceOnly ==
    PolicyRule([
        id |-> "test_data_in_source",
        name |-> "Test Data In Source",
        description |-> "No test data in source files",
        severity |-> "critical",
        action |-> "block",
        patterns |-> <<"create_test_.*">>,
        context_conditions |-> [file_patterns |-> <<"src/*", "*.sql">>],
        category |-> "testing" ])

\* a rule with the id of a built-in one and another severity and action
RuleStricterLibraries ==
    PolicyRule([
        id |-> "dangerous_libraries",
        name |-> "Dangerous Library Usage",
        description |-> "Blocks dangerous libraries",
        severity |-> "critical",
        action |-> "block",
        forbidden_imports |-> <<"pickle", "marshal">>,
        category |-> "imports" ])

\* a rule whose pattern is no regular expression (an unclosed group)
RuleBadPattern ==
    PolicyRule([
        id |-> "no_eval",
        name |-> "No Eval",
        description |-> "Forbids eval",
        severity |-> "high",
        action |-> "block",
        patterns |-> <<"eval(">>,
        category |-> "execution" ])

\* a rule with one pattern and one allowed exception
RuleRequestsGet ==
    PolicyRule([
        id |-> "no_external_get",
        name |-> "No External GET",
        description |-> "Only local requests",
        severity |-> "low",
        action |-> "log",
        patterns |-> <<"requests\\.get">>,
        allowed_exceptions |-> <<"localhost">>,
        category |-> "network" ])

RuleCatalogue ==
    {RuleCustomTest, RuleSourceOnly, RuleStricterLibraries, RuleBadPattern, RuleRequestsGet}

\* the ids remove_rule, enable_rule and disable_rule are called with
TargetIds == {"prod_env_modification", "dangerous_libraries", "custom_test_rule", "missing_rule"}

FilePaths == {None, Some(""), Some("src/seed.py"), Some("README.md")}

Contexts == {EmptyDict, [environment |-> "development"], [environment |-> "production"]}

Request(code, file_path, context) == [code |-> code, file_path |-> file_path, context |-> context]

\* a rule of two resource strings with a glob wildcard, and nothing else
RuleGlobResources ==
    PolicyRule([
        id |-> "glob_resources",
        name |-> "Production Resources",
        description |-> "Keeps production resources out of reach",
        severity |-> "high",
        action |-> "block",
        forbidden_directories |-> <<"/etc/*">>,
        forbidden_env_vars |-> <<"PROD_*">>,
        category |-> "resources" ])

\* every sample with no path and no context, and one sample with every path
\* and context
Requests ==
    {Request(code, None, EmptyDict) : code \in CodeSamples}
    \cup {Request(CodeTestData, fp, ctx) : fp \in FilePaths, ctx \in Contexts}

(***************************************************************************)
(* The state of one engine and of its callers.                             *)
(***************************************************************************)
VARIABLES
    rules,              \* self.rules, in insertion order
    global_settings,    \* self.global_settings
    violation_history,  \* self.violation_history
    last,               \* the last call: its name, its argument, what it returned
    response,           \* the endpoint's last answer, None before the first
    toggle,             \* the last disable_rule that found its rule, the store
                        \* before it, and whether enable_rule has undone it since
    nops,               \* how many operations ran
    matchers,           \* what the matchers find for the rules and codes of
                        \* the specification: a table which the initial state
                        \* computes and no operation writes
    exported,           \* the file export_config wrote last, None before it
    analyzed,           \* the security analyzer's input: a code and a language,
                        \* None when it is a list of issues (hits)
    hits,               \* the issues given to the scoring, or found in the code
    assessment,         \* the analyzer's response, None before the call
    calls               \* the calls of the threads that share the engine, each
                        \* with its position in the code

vars == <<rules, global_settings, violation_history, last, response, toggle, nops, matchers,
          exported, analyzed, hits, assessment, calls>>

(***************************************************************************)
(* PolicyEngine.analyze_code, without its append to the history: the       *)
(* violations it returns, or the exception that leaves it.                 *)
(***************************************************************************)
\* ast_tree after the try of analyze_code: except SyntaxError: pass
AstTreeOf(code) ==
    LET parsed == ast_parse(code)
    IN  IF parsed.raised = "" THEN Some(parsed.value) ELSE None

\* a rule as the matchers see it: they read every field but enabled
RuleKey(rule) == [rule EXCEPT !.enabled = TRUE]

\* every rule a store of this model can hold
RuleUniverse ==
    {RuleKey(r) : r \in Elements(DefaultRules) \cup RuleCatalogue
                        \cup UNION {Elements(load_policies(file).rules) : file \in ConfigFiles}}

\* run_matchers is a function of the rule, the code and its tree alone: its
\* values for the rules and samples of this model, computed once
MatcherTable ==
    [rule \in RuleUniverse |->
        [code \in CodeSamples |-> run_matchers(code.text, rule, AstTreeOf(code))]]

\* _check_rule(code, rule, ast_tree, file_path, context), ast_tree being
\* AstTreeOf(code)
_check_rule(code, rule, ast_tree, file_path, context) ==
    LET found == matchers[RuleKey(rule)][code]
    IN  IF found.raised # "" THEN found
        ELSE Ok(_apply_context_conditions(found.value, rule, context, file_path))

\* an analysis that runs every rule of the store, enabled or not
analyze_code_every_rule(rs, code, file_path, context) ==
    LET checked == [k \in 1..Len(rs) |->
                        _check_rule(code, rs[k], AstTreeOf(code), file_path, context)]
    IN  IF code.parse \notin {"", "SyntaxError"} THEN Raise(code.parse)
        ELSE IF \E k \in 1..Len(checked) : checked[k].raised # ""
        THEN Raise("re.error")
        ELSE Ok(Flatten([k \in 1..Len(checked) |-> checked[k].value]))

\* an analysis that returns a violation once: one the history holds already
\* is not returned again
analyze_code_unrecorded_only(rs, code, file_path, context) ==
    LET enabled == SelectSeq(rs, LAMBDA rule : rule.enabled)
        checked == [k \in 1..Len(enabled) |->
                        _check_rule(code, enabled[k], AstTreeOf(code), file_path, context)]
        Unrecorded(v) == \A k \in 1..Len(violation_history) : violation_history[k] # v
    IN  IF code.parse \notin {"", "SyntaxError"} THEN Raise(code.parse)
        ELSE IF \E k \in 1..Len(checked) : checked[k].raised # ""
        THEN Raise("re.error")
        ELSE Ok(SelectSeq(Flatten([k \in 1..Len(checked) |-> checked[k].value]), Unrecorded))

analyze_code(rs, code, file_path, context) ==
    LET parsed == ast_parse(code)
        enabled == SelectSeq(rs, LAMBDA rule : rule.enabled)
        checked == [k \in 1..Len(enabled) |->
                        _check_rule(code, enabled[k], AstTreeOf(code), file_path, context)]
    IN  IF parsed.raised \notin {"", "SyntaxError"} THEN Raise(parsed.raised)
        ELSE IF \E k \in 1..Len(checked) : checked[k].raised # ""
        THEN checked[CHOOSE k \in 1..Len(checked) :
                        /\ checked[k].raised # ""
                        /\ \A j \in 1..(k - 1) : checked[j].raised = ""]
        ELSE Ok(Flatten([k \in 1..Len(checked) |-> checked[k].value]))

(***************************************************************************)
(* The queries and the report.                                             *)
(***************************************************************************)
\* len([v for v in violations if v.severity == severity])
CountSeverity(violations, severity) ==
    Len(SelectSeq(violations, LAMBDA v : v.severity = severity))

\* get_violations_by_severity(severity)
get_violations_by_severity(history, severity) ==
    SelectSeq(history, LAMBDA v : v.severity = severity)

\* get_violations_by_category(category)
get_violations_by_category(history, category) ==
    SelectSeq(history, LAMBDA v : v.policy_category = category)

\* how many entries recent_violations holds at most
RecentLimit == 10

\* a report whose recent list is the first entries of the history, not the last
report_of_first_entries(history) ==
    LET categories == {history[k].policy_category : k \in 1..Len(history)}
        rule_ids == {history[k].rule_id : k \in 1..Len(history)}
        ByCategory(v) ==
            [ rule_id |-> v.rule_id, rule_name |-> v.rule_name,
              severity |-> v.severity, description |-> v.description ]
        Recent(v) ==
            [ rule_name |-> v.rule_name, severity |-> v.severity,
              description |-> v.description, line_number |-> v.line_number ]
        of_category == [c \in categories |-> get_violations_by_category(history, c)]
        last_ones ==
            SubSeq(history, 1,
                   IF Len(history) > RecentLimit THEN RecentLimit ELSE Len(history))
    IN  [ summary |->
            [ total_violations |-> Len(history),
              critical |-> CountSeverity(history, "critical"),
              high |-> CountSeverity(history, "high"),
              medium |-> CountSeverity(history, "medium"),
              low |-> CountSeverity(history, "low") ],
          violations_by_category |->
            [c \in categories |-> [k \in 1..Len(of_category[c]) |-> ByCategory(of_category[c][k])]],
          violations_by_rule |->
            [id \in rule_ids |-> Len(SelectSeq(history, LAMBDA v : v.rule_id = id))],
          recent_violations |-> [k \in 1..Len(last_ones) |-> Recent(last_ones[k])] ]

\* generate_violation_report()
generate_violation_report(history) ==
    LET categories == {history[k].policy_category : k \in 1..Len(history)}
        rule_ids == {history[k].rule_id : k \in 1..Len(history)}
        ByCategory(v) ==
            [ rule_id |-> v.rule_id, rule_name |-> v.rule_name,
              severity |-> v.severity, description |-> v.description ]
        Recent(v) ==
            [ rule_name |-> v.rule_name, severity |-> v.severity,
              description |-> v.description, line_number |-> v.line_number ]
        of_category == [c \in categories |-> get_violations_by_category(history, c)]
        last_ones ==
            SubSeq(history,
                   IF Len(history) > RecentLimit THEN Len(history) - RecentLimit + 1 ELSE 1,
                   Len(history))
    IN  [ summary |->
            [ total_violations |-> Len(history),
              critical |-> CountSeverity(history, "critical"),
              high |-> CountSeverity(history, "high"),
              medium |-> CountSeverity(history, "medium"),
              low |-> CountSeverity(history, "low") ],
          violations_by_category |->
            [c \in categories |-> [k \in 1..Len(of_category[c]) |-> ByCategory(of_category[c][k])]],
          violations_by_rule |->
            [id \in rule_ids |-> Len(SelectSeq(history, LAMBDA v : v.rule_id = id))],
          recent_violations |-> [k \in 1..Len(last_ones) |-> Recent(last_ones[k])] ]

(***************************************************************************)
(* The /analyze-with-policies endpoint on the shared engine: what it       *)
(* answers for the result of engine.analyze_code.  (Its "violations" list  *)
(* renames the fields of the result and is left out.)                      *)
(***************************************************************************)
\* an answer whose blocked flag follows the risk level: set from HIGH upwards
endpoint_blocked_by_risk(result) ==
    LET violations == result.value
        critical_count == CountSeverity(violations, "critical")
        high_count == CountSeverity(violations, "high")
    IN  IF result.raised # ""
        THEN [ status |-> 500, detail |-> "Policy analysis failed: " \o result.raised ]
        ELSE [ status |-> 200,
               total_violations |-> Len(violations),
               risk_level |->
                    IF critical_count > 0 THEN "CRITICAL"
                    ELSE IF high_count > 0 THEN "HIGH"
                    ELSE IF Len(violations) > 0 THEN "MEDIUM"
                    ELSE "LOW",
               summary |->
                    [ critical |-> critical_count,
                      high |-> high_count,
                      medium |-> CountSeverity(violations, "medium"),
                      low |-> CountSeverity(violations, "low") ],
               blocked |-> critical_count > 0 \/ high_count > 0 ]

\* an answer that assesses the engine's whole history with the returned
\* violations, not the returned violations alone
endpoint_assessing_history(result) ==
    LET violations == result.value
        recorded == violation_history \o violations
        critical_count == CountSeverity(recorded, "critical")
        high_count == CountSeverity(recorded, "high")
    IN  IF result.raised # ""
        THEN [ status |-> 500, detail |-> "Policy analysis failed: " \o result.raised ]
        ELSE [ status |-> 200,
               total_violations |-> Len(violations),
               risk_level |->
                    IF critical_count > 0 THEN "CRITICAL"
                    ELSE IF high_count > 0 THEN "HIGH"
                    ELSE IF Len(recorded) > 0 THEN "MEDIUM"
                    ELSE "LOW",
               summary |->
                    [ critical |-> critical_count,
                      high |-> high_count,
                      medium |-> CountSeverity(recorded, "medium"),
                      low |-> CountSeverity(recorded, "low") ],
               blocked |-> \E k \in 1..Len(violations) : violations[k].action = "block" ]

analyze_code_with_policies_endpoint(result) ==
    LET violations == result.value
        critical_count == CountSeverity(violations, "critical")
        high_count == CountSeverity(violations, "high")
    IN  IF result.raised # ""
        THEN [ status |-> 500, detail |-> "Policy analysis failed: " \o result.raised ]
        ELSE [ status |-> 200,
               total_violations |-> Len(violations),
               risk_level |->
                    IF critical_count > 0 THEN "CRITICAL"
                    ELSE IF high_count > 0 THEN "HIGH"
                    ELSE IF Len(violations) > 0 THEN "MEDIUM"
                    ELSE "LOW",
               summary |->
                    [ critical |-> critical_count,
                      high |-> high_count,
                      medium |-> CountSeverity(violations, "medium"),
                      low |-> CountSeverity(violations, "low") ],
               blocked |-> \E k \in 1..Len(violations) : violations[k].action = "block" ]

CallRecord(op, arg, ret) == [op |-> op, arg |-> arg, ret |-> ret]

\* the calls that the threads of the one engine make
Calls == 1..MaxCalls

\* a thread outside analyze_code
IdleCall ==
    [ pc |-> "idle", req |-> None, di_used |-> 0, pos |-> 0, violations |-> <<>>,
      pending |-> <<>>, raised |-> "", seen |-> <<>>, at |-> 0, overlapped |-> FALSE ]

NoToggle == [phase |-> "none", rule_id |-> "", before |-> <<>>]

\* PolicyEngine.__init__(config_path), with the file at config_path
Init ==
    \E file \in {FileMissing, FileTeam} :
        LET loaded == IF file.exists THEN load_policies(file) ELSE _create_default_policies
        IN  /\ rules = loaded.rules
            /\ global_settings = loaded.global_settings
            /\ violation_history = <<>>
            /\ last = CallRecord("__init__", file.path, None)
            /\ response = None
            /\ toggle = NoToggle
            /\ nops = 0
            /\ matchers = MatcherTable
            /\ exported = None
            /\ analyzed = None
            /\ hits = <<>>
            /\ assessment = None
            /\ calls = [c \in Calls |-> IdleCall]
        
\* a history that keeps the violations of the last analysis only
replace_history(history, result) ==
    IF result.raised = "" THEN result.value ELSE history

\* a history that takes a violation once: one it holds already is not appended
extend_history_unique(history, result) ==
    IF result.raised = ""
    THEN history \o SelectSeq(result.value, LAMBDA v : \A k \in 1..Len(history) : history[k] # v)
    ELSE history

\* a history that takes what a call had found when it raised
extend_history_despite_raise(history, result) == history \o result.value

\* self.violation_history.extend(violations), reached only when nothing raised
extend_history(history, result) ==
    IF result.raised = "" THEN history \o result.value ELSE history

\* a request to the endpoint: engine.analyze_code(code, file_path, context)
\* and the answer derived from what it returns
AnalyzeCode(req) ==
    LET result == analyze_code(rules, req.code, req.file_path, req.context)
    IN  /\ nops < MaxOps
        /\ violation_history' = extend_history(violation_history, result)
        /\ last' = CallRecord("analyze_code", req, result)
        /\ response' = Some(analyze_code_with_policies_endpoint(result))
        /\ nops' = nops + 1
        /\ UNCHANGED <<matchers, exported, analyzed, hits, assessment, calls>>
        /\ UNCHANGED <<rules, global_settings, toggle>>

\* a store that appends the rule and leaves an earlier rule of the id in place
add_rule_append(rs, rule) == Append(rs, rule)

\* self.rules[rule.id] = rule
add_rule(rs, rule) == DictSet(rs, rule)

AddRule(rule) ==
    /\ nops < MaxOps
    /\ rules' = add_rule(rules, rule)
    /\ last' = CallRecord("add_rule", rule, None)
    /\ toggle' = NoToggle
    /\ nops' = nops + 1
    /\ UNCHANGED <<matchers, exported, analyzed, hits, assessment, calls>>
    /\ UNCHANGED <<global_settings, violation_history, response>>

\* remove_rule(rule_id): the store it leaves and what it returns
remove_rule(rs, rule_id) ==
    IF HasRule(rs, rule_id)
    THEN [rules |-> DictDel(rs, rule_id), ret |-> TRUE]
    ELSE [rules |-> rs, ret |-> FALSE]

RemoveRule(rule_id) ==
    LET r == remove_rule(rules, rule_id)
    IN  /\ nops < MaxOps
        /\ rules' = r.rules
        /\ last' = CallRecord("remove_rule", rule_id, r.ret)
        /\ toggle' = IF r.ret THEN NoToggle ELSE toggle
        /\ nops' = nops + 1
        /\ UNCHANGED <<matchers, exported, analyzed, hits, assessment, calls>>
        /\ UNCHANGED <<global_settings, violation_history, response>>

\* a toggle without the membership test: it reports success for any id
set_enabled_unchecked(rs, rule_id, enabled) ==
    [ rules |-> [k \in 1..Len(rs) |->
                    IF rs[k].id = rule_id THEN [rs[k] EXCEPT !.enabled = enabled] ELSE rs[k]],
      ret |-> TRUE ]

\* self.rules[rule_id].enabled = enabled, behind the membership test that
\* enable_rule and disable_rule share
set_enabled(rs, rule_id, enabled) ==
    IF HasRule(rs, rule_id)
    THEN [rules |-> [rs EXCEPT ![RulePos(rs, rule_id)].enabled = enabled], ret |-> TRUE]
    ELSE [rules |-> rs, ret |-> FALSE]

\* enable_rule(rule_id): the store it leaves and what it returns
enable_rule(rs, rule_id) == set_enabled(rs, rule_id, TRUE)

\* disable_rule(rule_id): the store it leaves and what it returns
disable_rule(rs, rule_id) == set_enabled(rs, rule_id, FALSE)

EnableRule(rule_id) ==
    LET r == enable_rule(rules, rule_id)
    IN  /\ nops < MaxOps
        /\ rules' = r.rules
        /\ last' = CallRecord("enable_rule", rule_id, r.ret)
        /\ toggle' = IF ~r.ret THEN toggle
                     ELSE IF toggle.phase # "none" /\ toggle.rule_id = rule_id
                          THEN [toggle EXCEPT !.phase = "reenabled"]
                          ELSE NoToggle
        /\ nops' = nops + 1
        /\ UNCHANGED <<matchers, exported, analyzed, hits, assessment, calls>>
        /\ UNCHANGED <<global_settings, violation_history, response>>

DisableRule(rule_id) ==
    LET r == disable_rule(rules, rule_id)
    IN  /\ nops < MaxOps
        /\ rules' = r.rules
        /\ last' = CallRecord("disable_rule", rule_id, r.ret)
        /\ toggle' = IF r.ret
                     THEN [phase |-> "disabled", rule_id |-> rule_id, before |-> rules]
                     ELSE toggle
        /\ nops' = nops + 1
        /\ UNCHANGED <<matchers, exported, analyzed, hits, assessment, calls>>
        /\ UNCHANGED <<global_settings, violation_history, response>>

\* a load that writes its rules into the dict the engine holds
store_updated_by_load(rs, loaded) ==
    [k \in 1..Len(rs) |->
        IF HasRule(loaded.rules, rs[k].id) THEN RuleOf(loaded.rules, rs[k].id) ELSE rs[k]]
    \o SelectSeq(loaded.rules, LAMBDA rule : ~HasRule(rs, rule.id))

\* self.rules = {} before _parse_config fills it, self.rules = default_rules
\* in _create_default_policies: the engine's dict rs is dropped as a whole
store_after_load(rs, loaded) == loaded.rules

\* load_policies(config_path) on an engine that holds a store
LoadPolicies(file) ==
    LET loaded == load_policies(file)
    IN  /\ nops < MaxOps
        /\ rules' = store_after_load(rules, loaded)
        /\ global_settings' = loaded.global_settings
        /\ last' = CallRecord("load_policies", file.path, None)
        /\ toggle' = NoToggle
        /\ nops' = nops + 1
        /\ UNCHANGED <<matchers, exported, analyzed, hits, assessment, calls>>
        /\ UNCHANGED <<violation_history, response>>

\* export_config(output_path)
ExportConfig(output_path) ==
    /\ nops < MaxOps
    /\ exported' = Some(export_config(rules, global_settings, output_path))
    /\ last' = CallRecord("export_config", output_path, None)
    /\ nops' = nops + 1
    /\ UNCHANGED <<matchers, analyzed, hits, assessment, calls>>
    /\ UNCHANGED <<rules, global_settings, violation_history, response, toggle>>

GetViolationsBySeverity(severity) ==
    /\ nops < MaxOps
    /\ last' = CallRecord("get_violations_by_severity", severity,
                          get_violations_by_severity(violation_history, severity))
    /\ nops' = nops + 1
    /\ UNCHANGED <<matchers, exported, analyzed, hits, assessment, calls>>
    /\ UNCHANGED <<rules, global_settings, violation_history, response, toggle>>

GetViolationsByCategory(category) ==
    /\ nops < MaxOps
    /\ last' = CallRecord("get_violations_by_category", category,
                          get_violations_by_category(violation_history, category))
    /\ nops' = nops + 1
    /\ UNCHANGED <<matchers, exported, analyzed, hits, assessment, calls>>
    /\ UNCHANGED <<rules, global_settings, violation_history, response, toggle>>

GenerateViolationReport ==
    /\ nops < MaxOps
    /\ last' = CallRecord("generate_violation_report", None,
                          generate_violation_report(violation_history))
    /\ nops' = nops + 1
    /\ UNCHANGED <<matchers, exported, analyzed, hits, assessment, calls>>
    /\ UNCHANGED <<rules, global_settings, violation_history, response, toggle>>

\* the severities and categories the queries are called with
\* the paths export_config is called with
ExportPaths == {"export.yaml", "export.json"}

\* the files load_policies can be given: the fixed ones and the exported one
LoadableFiles == ConfigFiles \cup (IF exported = None THEN {} ELSE {exported[1]})

QuerySeverities == {"critical", "high"}

QueryCategories == {"imports", "testing"}

Next ==
    \/ \E req \in Requests : AnalyzeCode(req)
    \/ \E rule \in RuleCatalogue : AddRule(rule)
    \/ \E rule_id \in TargetIds : RemoveRule(rule_id)
    \/ \E rule_id \in TargetIds : EnableRule(rule_id)
    \/ \E rule_id \in TargetIds : DisableRule(rule_id)
    \/ \E file \in ConfigFiles : LoadPolicies(file)
    \/ \E severity \in QuerySeverities : GetViolationsBySeverity(severity)
    \/ \E category \in QueryCategories : GetViolationsByCategory(category)
    \/ GenerateViolationReport

Spec == Init /\ [][Next]_vars

(***************************************************************************)
(* The engine under rule management and export alone: the store is         *)
(* written by add_rule, remove_rule, enable_rule and disable_rule,         *)
(* exported, and the exported file loaded.                                 *)
(***************************************************************************)
ExportNext ==
    \/ \E rule \in RuleCatalogue : AddRule(rule)
    \/ \E rule_id \in TargetIds : RemoveRule(rule_id)
    \/ \E rule_id \in TargetIds : EnableRule(rule_id)
    \/ \E rule_id \in TargetIds : DisableRule(rule_id)
    \/ \E output_path \in ExportPaths : ExportConfig(output_path)
    \/ \E file \in LoadableFiles \ ConfigFiles : LoadPolicies(file)

ExportSpec == Init /\ [][ExportNext]_vars

(***************************************************************************)
(* AICodeSecurityAnalyzer (security_analyzer.py).  A score is kept in      *)
(* thousandths (1000 is 1.0) and a risk in tenths (10 is 1.0): every       *)
(* weight is a whole number of tenths, and round(., 3) yields a whole      *)
(* number of thousandths.  An issue leaves out column_number, which only   *)
(* the formatted copy of the issue repeats; the response leaves out the    *)
(* explanation and the timestamp.                                          *)
(***************************************************************************)
\* visit_For: range_size > 100
RangeThreshold == 100

\* class RiskLevel(Enum), by member name and value
RiskLevel == [LOW |-> 1, MEDIUM |-> 2, HIGH |-> 3, CRITICAL |-> 4]

SecurityIssue(pattern, risk_level, description, line_number, suggestion) ==
    [ pattern |-> pattern,
      risk_level |-> risk_level,
      description |-> description,
      line_number |-> line_number,
      suggestion |-> suggestion ]

\* self.dangerous_patterns, in insertion order
dangerous_patterns ==
    << [ name |-> "sql_drop_table",
         patterns |-> << "DROP\\s+TABLE", "drop\\s+table" >>,
         risk_level |-> "CRITICAL",
         description |-> "DROP TABLE statement detected - can destroy data permanently" ],
       [ name |-> "sql_delete_without_where",
         patterns |-> << "DELETE\\s+FROM\\s+\\w+(?!\\s+WHERE)", "delete\\s+from\\s+\\w+(?!\\s+where)" >>,
         risk_level |-> "CRITICAL",
         description |-> "DELETE without WHERE clause - can delete all records" ],
       [ name |-> "sql_truncate",
         patterns |-> << "TRUNCATE\\s+TABLE", "truncate\\s+table" >>,
         risk_level |-> "HIGH",
         description |-> "TRUNCATE TABLE statement detected" ],
       [ name |-> "sql_alter_drop",
         patterns |-> << "ALTER\\s+TABLE.*DROP", "alter\\s+table.*drop" >>,
         risk_level |-> "HIGH",
         description |-> "ALTER TABLE DROP statement detected" ],
       [ name |-> "bulk_user_creation",
         patterns |-> << "for.*range\\(\\s*\\d{3,}\\s*\\).*user", "while.*user.*create", "bulk_create.*user" >>,
         risk_level |-> "MEDIUM",
         description |-> "Mass user creation detected" ],
       [ name |-> "bulk_data_insertion",
         patterns |-> << "for.*range\\(\\s*\\d{3,}\\s*\\).*insert", "INSERT.*VALUES.*\\(", "executemany" >>,
         risk_level |-> "MEDIUM",
         description |-> "Bulk data insertion operation detected" ],
       [ name |-> "eval_exec",
         patterns |-> << "\\beval\\s*\\(", "\\bexec\\s*\\(" >>,
         risk_level |-> "CRITICAL",
         description |-> "Dynamic code execution (eval/exec) detected" ],
       [ name |-> "system_commands",
         patterns |-> << "os\\.system\\s*\\(", "subprocess\\.call", "subprocess\\.run", "shell=True" >>,
         risk_level |-> "HIGH",
         description |-> "System command execution detected" ],
       [ name |-> "file_deletion",
         patterns |-> << "os\\.remove\\s*\\(", "os\\.unlink\\s*\\(", "shutil\\.rmtree\\s*\\(", "pathlib.*unlink\\s*\\(" >>,
         risk_level |-> "HIGH",
         description |-> "File deletion operation detected" ],
       [ name |-> "external_requests",
         patterns |-> << "requests\\.(get|post|put|delete)", "urllib\\.request", "http\\.client" >>,
         risk_level |-> "MEDIUM",
         description |-> "External network request detected" ] >>

production_indicators ==
    << "prod", "production", "live", "master", "main_db", "prod_db", "production_db", "live_db" >>

_get_suggestion(pattern_name) ==
    CASE pattern_name = "sql_drop_table" -> "Use DROP TABLE with explicit WHERE conditions and backups"
      [] pattern_name = "sql_delete_without_where" -> "Always include WHERE clause in DELETE statements"
      [] pattern_name = "sql_truncate" -> "Consider using DELETE with WHERE for safer data removal"
      [] pattern_name = "eval_exec" -> "Use ast.literal_eval() or safer alternatives to dynamic execution"
      [] pattern_name = "system_commands" -> "Use subprocess with shell=False and input validation"
      [] pattern_name = "bulk_user_creation" -> "Limit batch sizes and add proper validation"
      [] pattern_name = "file_deletion" -> "Add existence checks and use try-catch blocks"
      [] pattern_name = "external_requests" -> "Validate URLs and use timeout parameters"
      [] OTHER -> "Review this operation for security implications"

\* _analyze_string_patterns(code): one issue for each pattern of each entry
\* and each line the pattern is found in; every pattern is searched with
\* re.IGNORECASE
_analyze_string_patterns(text) ==
    LET lines == SplitLines(text)
        OfPattern(config, pattern) ==
            LET found == SelectSeq([n \in 1..Len(lines) |-> n],
                                   LAMBDA n : Search(Compile(pattern), lines[n]))
            IN  [j \in 1..Len(found) |->
                    SecurityIssue(config.name, config.risk_level, config.description,
                                  Some(found[j]), Some(_get_suggestion(config.name)))]
        OfConfig(config) ==
            Flatten([k \in 1..Len(config.patterns) |-> OfPattern(config, config.patterns[k])])
    IN  Flatten([c \in 1..Len(dangerous_patterns) |-> OfConfig(dangerous_patterns[c])])

\* SecurityASTVisitor.visit_Call
visit_Call(node) ==
    (IF node.func.t = "Name" /\ node.func.id \in {"eval", "exec"}
     THEN << SecurityIssue("ast_eval_exec", "CRITICAL",
                           "Dynamic code execution (" \o node.func.id \o ") detected in AST",
                           Some(node.lineno), None) >>
     ELSE <<>>)
    \o
    (IF /\ node.func.t = "Attribute"
        /\ node.func.value.t = "Name"
        /\ node.func.value.id = "os"
        /\ node.func.attr = "system"
     THEN << SecurityIssue("ast_os_system", "HIGH", "os.system() call detected in AST",
                           Some(node.lineno), None) >>
     ELSE <<>>)

\* SecurityASTVisitor.visit_Import
visit_Import(node) ==
    LET dangerous == SelectSeq(node.names, LAMBDA name : name \in {"subprocess", "shutil", "pickle"})
    IN  [j \in 1..Len(dangerous) |->
            SecurityIssue("ast_import_" \o dangerous[j],
                          IF dangerous[j] = "subprocess" THEN "HIGH" ELSE "MEDIUM",
                          "Import of potentially dangerous module: " \o dangerous[j],
                          Some(node.lineno),
                          Some("Ensure " \o dangerous[j] \o " is used safely with proper input validation"))]

\* SecurityASTVisitor.visit_For: the first argument of range(...) is the
\* only one it reads
visit_For(node) ==
    IF /\ node.iter.t = "Call"
       /\ node.iter.func.t = "Name"
       /\ node.iter.func.id = "range"
       /\ Len(node.iter.args) > 0
       /\ node.iter.args[1].t = "Constant"
       /\ node.iter.args[1].value > RangeThreshold
    THEN << SecurityIssue("ast_large_iteration", "MEDIUM",
                          "Large iteration detected: range(" \o NatStr(node.iter.args[1].value) \o ")",
                          Some(node.lineno),
                          Some("Consider batch processing or limiting iteration size")) >>
    ELSE <<>>

\* _analyze_python_ast(code): the visitor's issues; a SyntaxError is passed
\* over and any other exception printed, both leaving no issue.  The visitor
\* has no method for ImportFrom.
_analyze_python_ast(code) ==
    LET tree == ast_parse(code)
        Visit(node) ==
            CASE node.type = "Call" -> visit_Call(node)
              [] node.type = "Import" -> visit_Import(node)
              [] node.type = "For" -> visit_For(node)
              [] OTHER -> <<>>
    IN  IF tree.raised # "" THEN <<>>
        ELSE Flatten([k \in 1..Len(tree.value) |-> Visit(tree.value[k])])

\* _check_production_indicators(code)
_check_production_indicators(text) ==
    LET lines == SplitLines(text)
        keywords == <<"connect", "database", "db", "host", "url">>
        OfLine(n) ==
            LET line == Lower(lines[n])
                present == SelectSeq(production_indicators, LAMBDA indicator : Contains(line, indicator))
            IN  IF \E k \in 1..Len(keywords) : Contains(line, keywords[k])
                THEN [j \in 1..Len(present) |->
                        SecurityIssue("production_db_access", "HIGH",
                            "Potential production database access detected: \"" \o present[j] \o "\"",
                            Some(n),
                            Some("Use development/staging databases for testing and AI-generated code"))]
                ELSE <<>>
    IN  Flatten([n \in 1..Len(lines) |-> OfLine(n)])

\* risk_weights[level], in tenths
risk_weights(level) ==
    CASE level = "LOW" -> 1
      [] level = "MEDIUM" -> 3
      [] level = "HIGH" -> 6
      [] level = "CRITICAL" -> 10

RECURSIVE total_risk(_)
\* sum(risk_weights[issue.risk_level] for issue in issues), in tenths
total_risk(issues) ==
    IF issues = <<>> THEN 0
    ELSE risk_weights(Head(issues).risk_level) + total_risk(Tail(issues))

\* round(num / den, 3) in thousandths, a tie going to the even neighbour
Round3(num, den) ==
    LET q == (1000 * num) \div den
        r == (1000 * num) % den
    IN  IF 2 * r > den THEN q + 1
        ELSE IF 2 * r < den THEN q
        ELSE IF q % 2 = 0 THEN q ELSE q + 1

\* a score that is not held at zero from below
score_unclamped(issues) ==
    IF issues = <<>> THEN 1000
    ELSE Round3(50 - total_risk(issues), 50)

\* a score that takes four critical issues, not five, as no safety
score_of_max_risk_four(issues) ==
    IF issues = <<>> THEN 1000
    ELSE LET over == total_risk(issues)
         IN  Round3(IF over > 40 THEN 0 ELSE 40 - over, 40)

\* a score of the mean risk of the issues, not of their total
score_by_mean_risk(issues) ==
    IF issues = <<>> THEN 1000
    ELSE Round3(10 * Len(issues) - total_risk(issues), 10 * Len(issues))

\* _calculate_safety_score(issues), in thousandths:
\* round(max(0.0, 1.0 - total_risk / max_risk), 3)
_calculate_safety_score(issues) ==
    IF issues = <<>> THEN 1000
    ELSE LET max_risk == 50
             over == total_risk(issues)
         IN  Round3(IF over > max_risk THEN 0 ELSE max_risk - over, max_risk)

_get_recommendation(status) ==
    CASE status = "SAFE" -> "Code can be executed with normal precautions."
      [] status = "MODERATE_RISK" ->
            "Review flagged issues before execution. Consider additional security measures."
      [] status = "HIGH_RISK" ->
            "Require security team approval before execution. Implement additional safeguards."
      [] status = "CRITICAL_RISK" ->
            "DO NOT EXECUTE. Requires complete security review and refactoring."
      [] OTHER -> "Manual security review required."

\* a response whose thresholds are exclusive
response_strict_thresholds(safety_score, issues) ==
    LET safety_status ==
            IF safety_score > 800 THEN "SAFE"
            ELSE IF safety_score > 600 THEN "MODERATE_RISK"
            ELSE IF safety_score > 300 THEN "HIGH_RISK"
            ELSE "CRITICAL_RISK"
    IN  [ safety_score |-> safety_score,
          safety_status |-> safety_status,
          total_issues |-> Len(issues),
          issues |-> issues,
          recommendation |-> _get_recommendation(safety_status) ]

\* _generate_response(safety_score, issues)
_generate_response(safety_score, issues) ==
    LET safety_status ==
            IF safety_score >= 800 THEN "SAFE"
            ELSE IF safety_score >= 600 THEN "MODERATE_RISK"
            ELSE IF safety_score >= 300 THEN "HIGH_RISK"
            ELSE "CRITICAL_RISK"
    IN  [ safety_score |-> safety_score,
          safety_status |-> safety_status,
          total_issues |-> Len(issues),
          issues |-> issues,
          recommendation |-> _get_recommendation(safety_status) ]

\* the issues AICodeSecurityAnalyzer.analyze_code(code, language) collects
analyzer_issues(code, language) ==
    _analyze_string_patterns(code.text)
    \o (IF Lower(language) = "python" THEN _analyze_python_ast(code) ELSE <<>>)
    \o _check_production_indicators(code.text)

(***************************************************************************)
(* The analyzer alone.  It keeps no state between calls, so a behaviour is *)
(* one call: of analyze_code on a text, or of the scoring of a given list  *)
(* of issues (the Risk Aggregator's hits).                                 *)
(***************************************************************************)
\* the spec's example input; not Python, so ast.parse raises SyntaxError
CodeDropTable == Unparsed("DROP TABLE users", "SyntaxError")

CodeEval == Parsed("eval(x)", << Call(Name("eval"), 1) >>)

CodeOsSystem ==
    Parsed("import subprocess\nos.system(\"ls\")",
           << Import(<<"subprocess">>, 1), Call(Attribute(Name("os"), "system"), 2) >>)

\* for i in range(args): pass, on one line each
ForRange(text, args) ==
    Parsed("for i in range(" \o text \o "):\n    pass",
           << For(RangeCall(args), 1), Call(Name("range"), 1) >>)

\* loops over a range of integer literals; the last counts down from 150
RangeSamples ==
    { ForRange("100", <<Constant(100)>>),
      ForRange("101", <<Constant(101)>>),
      ForRange("0, 1000", <<Constant(0), Constant(1000)>>),
      ForRange("0, 50", <<Constant(0), Constant(50)>>),
      ForRange("150, 100, -1", <<Constant(150), Constant(100), OtherExpr>>) }

AnalyzerSamples ==
    {CodeDropTable, CodeEval, CodeOsSystem, CodeProdEnv, CodePickle, CodeSyntaxError,
     CodeSurrogate, CodeSafe, CodeExampleCom} \cup RangeSamples

Languages == {"python", "Python", "sql"}

\* an issue of a level, as a scanner hands it to the scoring
Hit(level) == SecurityIssue("hit", level, "", None, None)

HitLists == UNION {[1..n -> {Hit(level) : level \in DOMAIN RiskLevel}] : n \in 0..MaxHits}

AnalyzerInit ==
    /\ rules = <<>>
    /\ global_settings = EmptyDict
    /\ violation_history = <<>>
    /\ last = CallRecord("none", None, None)
    /\ response = None
    /\ toggle = NoToggle
    /\ nops = 0
    /\ matchers = EmptyDict
    /\ exported = None
    /\ assessment = None
    /\ calls = [c \in Calls |-> IdleCall]
    /\ \/ analyzed = None /\ hits \in HitLists
       \/ /\ analyzed \in {Some([code |-> code, language |-> language]) :
                                code \in AnalyzerSamples, language \in Languages}
          /\ hits = <<>>

\* _calculate_safety_score and _generate_response on a given list of issues
AssessHits ==
    /\ analyzed = None
    /\ assessment = None
    /\ assessment' = Some(_generate_response(_calculate_safety_score(hits), hits))
    /\ UNCHANGED <<analyzed, hits>>
    /\ UNCHANGED <<rules, global_settings, violation_history, last, response, toggle, nops, matchers,
                   exported, calls>>

\* AICodeSecurityAnalyzer.analyze_code(code, language)
AnalyzerAnalyzeCode ==
    /\ analyzed # None
    /\ assessment = None
    /\ LET issues == analyzer_issues(analyzed[1].code, analyzed[1].language)
       IN  /\ hits' = issues
           /\ assessment' = Some(_generate_response(_calculate_safety_score(issues), issues))
    /\ UNCHANGED analyzed
    /\ UNCHANGED <<rules, global_settings, violation_history, last, response, toggle, nops, matchers,
                   exported, calls>>

AnalyzerNext == AssessHits \/ AnalyzerAnalyzeCode

AnalyzerSpec == AnalyzerInit /\ [][AnalyzerNext]_vars

(***************************************************************************)
(* One engine called from several threads.  The engine takes no lock; the  *)
(* interpreter runs one thread at a time and may switch threads between    *)
(* two iterations of analyze_code's loop over self.rules.values(), but not *)
(* inside dict or list methods.  A call goes through                       *)
(*   idle -> loop -> extend -> done,  or  loop -> raised;                  *)
(* the iterator of the loop remembers the size the dict had when the loop  *)
(* began (di_used) and how many entries it has passed (pos), and its next  *)
(* step raises RuntimeError when the size has changed.  seen lists the     *)
(* stores the engine held while the call was in progress; at is where the  *)
(* call's violations begin in the history, 0 before they are appended.     *)
(***************************************************************************)
InProgress(call) == call.pc \in {"loop", "extend"}

\* the requests of the concurrent calls
ConcurrentRequests == {Request(CodeDangerous, None, EmptyDict), Request(CodePickle, None, EmptyDict)}

\* the rules and ids the store is written with while calls are in progress
ConcurrentRules == {RuleBadPattern, RuleStricterLibraries}

ConcurrentIds == {"dangerous_libraries", "missing_rule"}

\* analyze_code up to its loop: violations = [], ast.parse(code), and the
\* iterator over self.rules.values()
begin_call(req, rs, overlapped) ==
    IF req.code.parse \notin {"", "SyntaxError"}
    THEN [IdleCall EXCEPT !.pc = "raised", !.req = Some(req), !.raised = req.code.parse,
                          !.seen = <<rs>>, !.overlapped = overlapped]
    ELSE [IdleCall EXCEPT !.pc = "loop", !.req = Some(req), !.di_used = Len(rs),
                          !.seen = <<rs>>, !.overlapped = overlapped]

\* one iteration of the loop "for rule in self.rules.values()": next() of the
\* iterator, then the body
check_next(call, rs) ==
    IF Len(rs) # call.di_used
    THEN [call EXCEPT !.pc = "raised", !.raised = "RuntimeError"]
    ELSE IF call.pos >= Len(rs)
    THEN [call EXCEPT !.pc = "extend", !.pending = call.violations]
    ELSE LET rule == rs[call.pos + 1]
             req == call.req[1]
             found == IF rule.enabled
                      THEN _check_rule(req.code, rule, AstTreeOf(req.code), req.file_path, req.context)
                      ELSE Ok(<<>>)
         IN  IF found.raised # ""
             THEN [call EXCEPT !.pc = "raised", !.raised = found.raised, !.pos = @ + 1]
             ELSE [call EXCEPT !.pos = @ + 1, !.violations = @ \o found.value]

\* an extend that appends one item at a time, other threads running in between
list_extend_by_item(list, items) ==
    IF items = <<>> THEN [list |-> list, rest |-> <<>>]
    ELSE [list |-> Append(list, Head(items)), rest |-> Tail(items)]

\* list.extend(items), items a list: one call of the interpreter, which no
\* other thread runs within; rest is what is left to append after it
list_extend(list, items) == [list |-> list \o items, rest |-> <<>>]

\* the thread of a call: two threads take the calls in turn
ThreadOf(c) == c % 2

\* the thread of call c is free: its earlier calls have returned or raised
ThreadFree(c) ==
    /\ calls[c].pc = "idle"
    /\ \A d \in Calls : d < c /\ ThreadOf(d) = ThreadOf(c) => calls[d].pc \in {"done", "raised", "wrote"}

\* a thread enters analyze_code(code, file_path, context)
BeginCall(c, req) ==
    /\ ThreadFree(c)
    /\ calls' = [calls EXCEPT ![c] = begin_call(req, rules, \E d \in Calls : InProgress(calls[d]))]
    /\ UNCHANGED <<rules, global_settings, violation_history, last, response, toggle, nops,
                   matchers, exported, analyzed, hits, assessment>>

\* a thread runs one iteration of its loop; an exception leaves analyze_code
\* before self.violation_history.extend(violations) is reached
CheckNext(c) ==
    /\ calls[c].pc = "loop"
    /\ LET call == check_next(calls[c], rules)
       IN  /\ calls' = [calls EXCEPT ![c] = call]
           /\ violation_history' =
                IF call.pc = "raised"
                THEN extend_history(violation_history,
                                    [raised |-> call.raised, value |-> call.violations])
                ELSE violation_history
    /\ UNCHANGED <<rules, global_settings, last, response, toggle, nops,
                   matchers, exported, analyzed, hits, assessment>>

\* self.violation_history.extend(violations); return violations
ExtendHistory(c) ==
    /\ calls[c].pc = "extend"
    /\ LET extended == list_extend(violation_history, calls[c].pending)
       IN  /\ violation_history' = extended.list
           /\ calls' = [calls EXCEPT
                            ![c].at = IF @ = 0 THEN Len(violation_history) + 1 ELSE @,
                            ![c].pending = extended.rest,
                            ![c].pc = IF extended.rest = <<>> THEN "done" ELSE "extend"]
    /\ UNCHANGED <<rules, global_settings, last, response, toggle, nops,
                   matchers, exported, analyzed, hits, assessment>>

\* a thread writes the store: add_rule, remove_rule, enable_rule or
\* disable_rule leaving the store rs, each one statement on the dict or on a
\* rule.  A deleted entry stays in the dict's table as a hole that an iterator
\* steps over: an iterator that has passed it has passed one live entry fewer.
WriteStore(c, rs) ==
    /\ ThreadFree(c)
    /\ rules' = rs
    /\ LET removed == {k \in 1..Len(rules) : ~HasRule(rs, rules[k].id)}
           Passed(call) == Cardinality({k \in removed : k <= call.pos})
       IN  calls' = [d \in Calls |->
                        IF d = c THEN [IdleCall EXCEPT !.pc = "wrote"]
                        ELSE IF InProgress(calls[d])
                        THEN [calls[d] EXCEPT !.seen = Append(@, rs),
                                              !.pos = @ - Passed(calls[d])]
                        ELSE calls[d]]
    /\ UNCHANGED <<global_settings, violation_history, last, response, toggle, nops,
                   matchers, exported, analyzed, hits, assessment>>

ConcurrentNext ==
    \/ \E c \in Calls, req \in ConcurrentRequests : BeginCall(c, req)
    \/ \E c \in Calls : CheckNext(c)
    \/ \E c \in Calls : ExtendHistory(c)
    \/ \E c \in Calls, rule \in ConcurrentRules : WriteStore(c, add_rule(rules, rule))
    \/ \E c \in Calls, rule_id \in ConcurrentIds : WriteStore(c, remove_rule(rules, rule_id).rules)
    \/ \E c \in Calls, rule_id \in ConcurrentIds : WriteStore(c, enable_rule(rules, rule_id).rules)
    \/ \E c \in Calls, rule_id \in ConcurrentIds : WriteStore(c, disable_rule(rules, rule_id).rules)

\* main.py's engine, which all requests share: PolicyEngine(), no file being
\* at the default path
ConcurrentInit == Init /\ last.arg = FileMissing.path

ConcurrentSpec == ConcurrentInit /\ [][ConcurrentNext]_vars

\* run_matchers for the built-in rules, the glob rule and the probe codes
ProbeTable ==
    [rule \in {RuleKey(r) : r \in Elements(DefaultRules) \cup {RuleGlobResources}} |->
        [code \in ProbeCodes |-> run_matchers(code.text, rule, AstTreeOf(code))]]

\* PolicyEngine() where no file is at the default path: the built-in rules
MatcherInit ==
    /\ rules = _create_default_policies.rules
    /\ global_settings = _create_default_policies.global_settings
    /\ violation_history = <<>>
    /\ last = CallRecord("__init__", FileMissing.path, None)
    /\ response = None
    /\ toggle = NoToggle
    /\ nops = 0
    /\ matchers = ProbeTable
    /\ exported = None
    /\ analyzed = None
    /\ hits = <<>>
    /\ assessment = None
    /\ calls = [c \in Calls |-> IdleCall]

\* the engine with its built-in rules, with or without the glob rule, given
\* the probe codes
MatcherNext ==
    \/ AddRule(RuleGlobResources)
    \/ \E code \in ProbeCodes : AnalyzeCode(Request(code, None, EmptyDict))

MatcherSpec == MatcherInit /\ [][MatcherNext]_vars

(***************************************************************************)
(* Properties.  A property about "an evaluate call" reads the call from    *)
(* last: the request, and what analyze_code returned or raised.  The store *)
(* the call ran on is rules, which analyze_code leaves alone.              *)
(***************************************************************************)
Evaluated == last.op = "analyze_code" /\ last.ret.raised = ""

\* the violations of one rule in a list of violations
OfRule(violations, rule_id) == SelectSeq(violations, LAMBDA v : v.rule_id = rule_id)

IsPrefix(s, t) == Len(s) <= Len(t) /\ SubSeq(t, 1, Len(s)) = s

\* C1: for every evaluate call that returns, the answer's blocked flag is true
\* if and only if some violation of the returned list has action block; so a
\* blocked answer always has an enabled rule of action block in the store with
\* a violation of its own in the list (a block rule that is disabled, matches
\* nothing or is filtered out does not set the flag).
C1_BlockedIffBlockViolation ==
    Evaluated =>
        LET violations == last.ret.value
            answer == response[1]
        IN  /\ answer.status = 200
            /\ answer.blocked <=> \E k \in 1..Len(violations) : violations[k].action = "block"
            /\ answer.blocked =>
                 \E i \in 1..Len(rules) :
                    /\ rules[i].enabled
                    /\ rules[i].action = "block"
                    /\ OfRule(violations, rules[i].id) # <<>>
            /\ \A i \in 1..Len(rules) :
                 (rules[i].action = "block" /\ ~rules[i].enabled)
                    => OfRule(violations, rules[i].id) = <<>>

\* an evaluate call that found violations, none of them blocking, on a store
\* that holds a block rule whose violations the context filter removed
C1_Witness ==
    /\ Evaluated
    /\ last.ret.value # <<>>
    /\ ~response[1].blocked
    /\ HasRule(rules, "test_data_in_source")
    /\ RuleOf(rules, "test_data_in_source").enabled
    /\ MatcherTable[RuleKey(RuleOf(rules, "test_data_in_source"))][last.arg.code].value # <<>>

\* every pattern of every enabled rule is a regular expression
PatternsCompile(rs) ==
    \A i \in 1..Len(rs) :
        rs[i].enabled =>
            \A k \in 1..Len(rs[i].patterns) : IsValidRegex(Compile(rs[i].patterns[k]))

\* what the enabled rules find in the text of a code that has no tree
TextFindings(rs, code, file_path, context) ==
    LET enabled == SelectSeq(rs, LAMBDA rule : rule.enabled)
    IN  Ok(Flatten([k \in 1..Len(enabled) |->
                        _check_rule(code, enabled[k], None, file_path, context).value]))

\* C2: an evaluate call on code that fails to parse does not raise, and
\* returns every pattern, directory, env-var and file-operation violation
\* that the enabled rules produce on the text.  (Stated for stores whose
\* patterns all compile, so that only the parse failure is in question.)
C2_ParseFailureNeverRaises ==
    (/\ last.op = "analyze_code"
     /\ last.arg.code.parse # ""
     /\ PatternsCompile(rules))
        => /\ last.ret.raised = ""
           /\ last.ret = TextFindings(rules, last.arg.code, last.arg.file_path, last.arg.context)

\* every request gets the same result from two stores
SameResults(rs1, rs2) ==
    \A req \in Requests :
        analyze_code(rs1, req.code, req.file_path, req.context)
            = analyze_code(rs2, req.code, req.file_path, req.context)

\* an evaluate call returns no violation of a rule that is disabled (or
\* absent) at the time of the call
OnlyEnabledRulesFire ==
    Evaluated =>
        \A k \in 1..Len(last.ret.value) :
            /\ HasRule(rules, last.ret.value[k].rule_id)
            /\ RuleOf(rules, last.ret.value[k].rule_id).enabled

\* C3 as stated: only enabled rules fire, and once enableRule(id) has
\* followed disableRule(id), with evaluate calls and queries but no other
\* change of the store in between or since, every input produces exactly what
\* it produced before that disableRule(id).
C3_AsStated ==
    /\ OnlyEnabledRulesFire
    /\ toggle.phase = "reenabled" => SameResults(rules, toggle.before)

\* C3: only enabled rules fire, and once enableRule(id) has followed a
\* disableRule(id) that found the rule enabled, every input produces exactly
\* what it produced before that disableRule(id).
C3_OnlyEnabledRulesFire ==
    /\ OnlyEnabledRulesFire
    /\ (/\ toggle.phase = "reenabled"
        /\ RuleOf(toggle.before, toggle.rule_id).enabled)
            => /\ rules = toggle.before
               /\ SameResults(rules, toggle.before)

\* an evaluate call after disableRule and enableRule of an enabled rule, which
\* returns a violation of that rule
C3_Witness ==
    /\ Evaluated
    /\ toggle.phase = "reenabled"
    /\ RuleOf(toggle.before, toggle.rule_id).enabled
    /\ OfRule(last.ret.value, toggle.rule_id) # <<>>

\* C4: the history is append-only: whatever the operation, the history
\* before it is a prefix of the history after it (so the history at every
\* earlier point is a prefix of the current one).
C4_HistoryAppendOnly ==
    [][IsPrefix(violation_history, violation_history')]_vars

\* a second evaluate call on a history that the first one filled, followed by
\* a reload of the policies
C4_Witness ==
    /\ last.op = "load_policies"
    /\ Len(violation_history) >= 2
    /\ \E k \in 2..Len(violation_history) :
            violation_history[k].rule_id # violation_history[1].rule_id

\* C5: an evaluate call that returns leaves the history equal to the history
\* before it followed by the returned list, in its order; when the list is
\* empty the history is unchanged.
C5_EvaluateExtendsHistory ==
    [][(last'.op = "analyze_code" /\ last'.ret.raised = "")
            => /\ violation_history' = violation_history \o last'.ret.value
               /\ last'.ret.value = <<>> => violation_history' = violation_history]_vars

\* an evaluate call that returned several violations, on a history that held
\* the same ones already
C5_Witness ==
    /\ Evaluated
    /\ Len(last.ret.value) >= 2
    /\ Len(violation_history) = 2 * Len(last.ret.value)
    /\ violation_history = last.ret.value \o last.ret.value

\* a violation carries the severity and the action of a rule
LabelledAs(violation, rule) ==
    violation.severity = rule.severity /\ violation.action = rule.action

\* C6 as stated: every violation of the history has the severity and action of
\* the rule that the store holds now under its rule id, if it holds one.
C6_AsStated ==
    \A k \in 1..Len(violation_history) :
        HasRule(rules, violation_history[k].rule_id)
            => LabelledAs(violation_history[k], RuleOf(rules, violation_history[k].rule_id))

\* C6: a violation has the severity and action of the rule that the store held
\* under its rule id when the evaluate call produced it, and keeps them: no
\* later operation changes the severity or action of a violation of the
\* history.
C6_LabelledAtEvaluation ==
    [][/\ \A k \in 1..Len(violation_history) :
            /\ k <= Len(violation_history')
            /\ LabelledAs(violation_history'[k], violation_history[k])
       /\ \A k \in (Len(violation_history) + 1)..Len(violation_history') :
            /\ last'.op = "analyze_code"
            /\ HasRule(rules, violation_history'[k].rule_id)
            /\ LabelledAs(violation_history'[k], RuleOf(rules, violation_history'[k].rule_id))]_vars

\* a history with a violation of a rule that addRule has since overwritten
\* with another severity and action
C6_Witness ==
    /\ last.op = "add_rule"
    /\ \E k \in 1..Len(violation_history) :
            /\ violation_history[k].rule_id = last.arg.id
            /\ violation_history[k].severity # last.arg.severity
            /\ violation_history[k].action # last.arg.action

\* C7: addRule(rule) leaves a store that maps rule.id to exactly that rule and
\* every other id to the rule it mapped to before; the store grows by one rule
\* if the id was new and keeps its size otherwise; the history is unchanged.
C7_AddRuleInsertsOrOverwrites ==
    [][last'.op = "add_rule" =>
        LET rule == last'.arg
        IN  /\ HasRule(rules', rule.id)
            /\ RuleOf(rules', rule.id) = rule
            /\ RuleIds(rules') = RuleIds(rules) \cup {rule.id}
            /\ \A id \in RuleIds(rules) \ {rule.id} : RuleOf(rules', id) = RuleOf(rules, id)
            /\ Len(rules') = IF HasRule(rules, rule.id) THEN Len(rules) ELSE Len(rules) + 1
            /\ Cardinality(RuleIds(rules')) = Len(rules')
            /\ violation_history' = violation_history]_vars

\* addRule has overwritten a rule of the store, with violations in the history
C7_Witness ==
    /\ last.op = "add_rule"
    /\ last.arg = RuleStricterLibraries
    /\ RuleOf(rules, "dangerous_libraries") = RuleStricterLibraries
    /\ Len(rules) = Len(DefaultRules)
    /\ violation_history # <<>>

\* C8: removeRule(id), enableRule(id) and disableRule(id) return true exactly
\* when the store held id before the call.  When they return false the store is
\* unchanged; when they return true the rule of that id is removed, or is the
\* rule it was with enabled set to true or to false, and every other rule is
\* the rule it was.  The history is unchanged.
C8_ManagementReturnsAndFrame ==
    [][last'.op \in {"remove_rule", "enable_rule", "disable_rule"} =>
        LET id == last'.arg
            others == RuleIds(rules) \ {id}
        IN  /\ last'.ret = HasRule(rules, id)
            /\ violation_history' = violation_history
            /\ ~last'.ret => rules' = rules
            /\ \A other \in others :
                    HasRule(rules', other) /\ RuleOf(rules', other) = RuleOf(rules, other)
            /\ last'.ret =>
                 CASE last'.op = "remove_rule" ->
                        RuleIds(rules') = others /\ Len(rules') = Len(rules) - 1
                   [] last'.op = "enable_rule" ->
                        /\ RuleIds(rules') = RuleIds(rules) /\ Len(rules') = Len(rules)
                        /\ RuleOf(rules', id) = [RuleOf(rules, id) EXCEPT !.enabled = TRUE]
                   [] last'.op = "disable_rule" ->
                        /\ RuleIds(rules') = RuleIds(rules) /\ Len(rules') = Len(rules)
                        /\ RuleOf(rules', id) = [RuleOf(rules, id) EXCEPT !.enabled = FALSE]]_vars

\* disableRule has returned true for a rule that had produced violations, and
\* the history holds them still
C8_Witness ==
    /\ last.op = "disable_rule"
    /\ last.ret
    /\ ~RuleOf(rules, last.arg).enabled
    /\ OfRule(violation_history, last.arg) # <<>>

\* what the matchers of a rule find in a code, before the context filter
MatcherFindings(rule, code) == MatcherTable[RuleKey(rule)][code].value

\* C9: for an enabled rule whose context conditions are environment =
\* ["production"] alone, an evaluate call returns none of the rule's
\* violations when the context has no environment key or has environment
\* "development", and all the violations its matchers find when the context
\* has environment "production".
C9_EnvironmentFilter ==
    Evaluated =>
        \A i \in 1..Len(rules) :
            (/\ rules[i].enabled
             /\ rules[i].context_conditions = [environment |-> <<"production">>])
                => LET context == last.arg.context
                       returned == OfRule(last.ret.value, rules[i].id)
                   IN  /\ "environment" \notin DOMAIN context => returned = <<>>
                       /\ ("environment" \in DOMAIN context /\ context.environment = "development")
                            => returned = <<>>
                       /\ ("environment" \in DOMAIN context /\ context.environment = "production")
                            => returned = MatcherFindings(rules[i], last.arg.code)

\* an evaluate call in production that returns the violations of a
\* production-only rule
C9_Witness ==
    /\ Evaluated
    /\ HasRule(rules, "custom_test_rule")
    /\ RuleOf(rules, "custom_test_rule").enabled
    /\ last.arg.context = [environment |-> "production"]
    /\ OfRule(last.ret.value, "custom_test_rule") # <<>>
    /\ OfRule(last.ret.value, "custom_test_rule")
            = MatcherFindings(RuleCustomTest, last.arg.code)

\* C10: for an enabled rule whose context conditions are file_patterns alone,
\* an evaluate call returns the violations its matchers find if a file path was
\* supplied and matches one of the globs, and none of the rule's violations
\* otherwise; with no file path it returns none.
C10_FilePatternFilter ==
    Evaluated =>
        \A i \in 1..Len(rules) :
            (/\ rules[i].enabled
             /\ DOMAIN rules[i].context_conditions = {"file_patterns"})
                => LET globs == rules[i].context_conditions.file_patterns
                       file_path == last.arg.file_path
                       returned == OfRule(last.ret.value, rules[i].id)
                   IN  IF /\ file_path # None
                          /\ \E k \in 1..Len(globs) : Fnmatch(file_path[1], globs[k])
                       THEN returned = MatcherFindings(rules[i], last.arg.code)
                       ELSE returned = <<>>

\* C10 for the calls that supply a file path that is not empty
C10_FilePatternFilterWithPath ==
    (Evaluated /\ Truthy(last.arg.file_path)) => C10_FilePatternFilter

\* C11: an enabled rule with the pattern requests\.get and allowedExceptions
\* ["localhost"] produces no violation for the line
\* requests.get("http://localhost/x") and a violation for the line
\* requests.get("http://example.com").
C11_AllowException ==
    Evaluated =>
        \A i \in 1..Len(rules) :
            (/\ rules[i].enabled
             /\ rules[i].patterns = <<"requests\\.get">>
             /\ rules[i].allowed_exceptions = <<"localhost">>)
                => /\ last.arg.code = CodeLocalhost
                        => OfRule(last.ret.value, rules[i].id) = <<>>
                   /\ last.arg.code = CodeExampleCom
                        => OfRule(last.ret.value, rules[i].id) # <<>>

\* C11 for the host that is no exception: the line is flagged
C11_OtherHostFlagged ==
    (Evaluated /\ last.arg.code = CodeExampleCom) => C11_AllowException

\* every pattern of a rule is a regular expression
RuleCompiles(rule) ==
    \A k \in 1..Len(rule.patterns) : IsValidRegex(Compile(rule.patterns[k]))

\* C12: when an enabled rule has a pattern that is no regular expression, an
\* evaluate call (on code whose parse does not abort it) still returns, and
\* returns the violations of every other enabled rule: the result of the same
\* call on the store without the bad rules.
C12_BadRuleIsolated ==
    (/\ last.op = "analyze_code"
     /\ last.arg.code.parse \in {"", "SyntaxError"}
     /\ ~PatternsCompile(rules))
        => /\ last.ret.raised = ""
           /\ last.ret = analyze_code(SelectSeq(rules, RuleCompiles), last.arg.code,
                                      last.arg.file_path, last.arg.context)

\* the configuration file a call was given, by its path
FileAt(path) == CHOOSE file \in LoadableFiles : file.path = path

\* the file loads, and a rule of its configuration has a severity or an action
\* that is no member of the enumerations
HasUnrecognizedRule(file) ==
    /\ file.exists
    /\ file.loads.raised = ""
    /\ file.loads.value # None
    /\ \E k \in 1..Len(Get(file.loads.value[1], "policies", <<>>)) :
            LET rule_data == file.loads.value[1].policies[k].data
            IN  \/ Get(rule_data, "severity", "medium") \notin PolicySeverity
                \/ Get(rule_data, "action", "warn") \notin PolicyAction

\* the store holds no rule with an unrecognized severity or action
StoreRecognized ==
    \A i \in 1..Len(rules) :
        rules[i].severity \in PolicySeverity /\ rules[i].action \in PolicyAction

\* C13: registering a rule whose severity or action is unrecognized fails
\* with an InvalidRuleDefinition error (here: loading a configuration that
\* holds such a rule, at construction or by load_policies), and the store
\* never holds a rule with an unrecognized severity or action.
C13_InvalidRuleRejected ==
    /\ StoreRecognized
    /\ (/\ last.op \in {"__init__", "load_policies"}
        /\ HasUnrecognizedRule(FileAt(last.arg)))
            => last.ret = Raise("InvalidRuleDefinition")

\* the files that load_policies cannot load: missing, unreadable, of the wrong
\* type, malformed, empty
FailingFiles == {FileMissing, FileUnreadable, FileWrongType, FileMalformed, FileEmpty}

\* the ids of the built-in rules
BuiltInIds ==
    << "prod_env_modification", "sensitive_directory_access", "dangerous_libraries",
       "database_credential_exposure", "file_system_modifications", "network_requests" >>

\* C14: after an engine is constructed with no configuration file, and
\* after load_policies fails on a missing, unreadable, wrongly-typed or
\* malformed configuration, no error has reached the caller and the store
\* holds exactly the six built-in rules, all enabled.
C14_DefaultFallback ==
    (/\ last.op \in {"__init__", "load_policies"}
     /\ FileAt(last.arg) \in FailingFiles)
        => /\ last.ret = None
           /\ [i \in 1..Len(rules) |-> rules[i].id] = BuiltInIds
           /\ rules = DefaultRules
           /\ \A i \in 1..Len(rules) : rules[i].enabled

\* load_policies has failed on a malformed file, on an engine whose store held
\* a custom rule that had fired
C14_Witness ==
    /\ last.op = "load_policies"
    /\ FileAt(last.arg) = FileMalformed
    /\ OfRule(violation_history, "custom_test_rule") # <<>>
    /\ ~HasRule(rules, "custom_test_rule")


(***************************************************************************)
(* Properties of the security analyzer (AnalyzerSpec).                     *)
(***************************************************************************)
\* how many of the issues are of the level
CountLevel(issues, level) ==
    Cardinality({k \in 1..Len(issues) : issues[k].risk_level = level})

\* the total risk in tenths as the weights low 0.1, medium 0.3, high 0.6 and
\* critical 1.0 give it
WeightTenths(issues) ==
    CountLevel(issues, "LOW") + 3 * CountLevel(issues, "MEDIUM")
    + 6 * CountLevel(issues, "HIGH") + 10 * CountLevel(issues, "CRITICAL")

\* C15: for every list of hits the score is max(0, 1 - totalRisk/5.0), that
\* is 50 * score = max(0, 50 - sum of the weights in tenths); so it lies in
\* [0.0, 1.0], is 1.0 for no hit and 0.0 once totalRisk reaches 5.0.
C15_ScoreFormula ==
    assessment # None =>
        LET score == assessment[1].safety_score
            tenths == WeightTenths(hits)
        IN  /\ 50 * score = 1000 * (IF tenths > 50 THEN 0 ELSE 50 - tenths)
            /\ score \in 0..1000
            /\ hits = <<>> => score = 1000
            /\ tenths >= 50 => score = 0

\* a scored list of hits whose total risk is beyond 5.0
C15_Witness ==
    /\ assessment # None
    /\ analyzed = None
    /\ WeightTenths(hits) > 50
    /\ assessment[1].safety_score = 0


\* C16: the status follows the score by inclusive lower thresholds: SAFE
\* from 0.8, MODERATE_RISK from 0.6 to below 0.8, HIGH_RISK from 0.3 to
\* below 0.6, CRITICAL_RISK below 0.3; a score of exactly 0.8, 0.6 or 0.3 is
\* in the safer band.
C16_StatusThresholds ==
    assessment # None =>
        LET score == assessment[1].safety_score
            status == assessment[1].safety_status
        IN  /\ status = "SAFE" <=> score >= 800
            /\ status = "MODERATE_RISK" <=> (600 <= score /\ score < 800)
            /\ status = "HIGH_RISK" <=> (300 <= score /\ score < 600)
            /\ status = "CRITICAL_RISK" <=> score < 300
            /\ score = 800 => status = "SAFE"
            /\ score = 600 => status = "MODERATE_RISK"
            /\ score = 300 => status = "HIGH_RISK"

\* a list of hits scored exactly 0.3, on the lowest of the thresholds
C16_Witness ==
    /\ assessment # None
    /\ analyzed = None
    /\ assessment[1].safety_score = 300
    /\ assessment[1].safety_status = "HIGH_RISK"


\* C17: for the input `DROP TABLE users` the analyzer records a single hit,
\* of critical weight, and returns the score 1 - 1.0/5.0 = 0.8.
C17_DropTableSingleHit ==
    (assessment # None /\ analyzed # None /\ analyzed[1].code = CodeDropTable) =>
        /\ Len(hits) = 1
        /\ hits[1].risk_level = "CRITICAL"
        /\ assessment[1].safety_score = 800


\* the scored issues are exactly one issue, of critical level
OneCriticalHit ==
    /\ assessment # None
    /\ Len(hits) = 1
    /\ hits[1].risk_level = "CRITICAL"

\* C18 as stated: a hit set of exactly one critical-weight hit is reported
\* with status MODERATE_RISK.
C18_AsStated ==
    OneCriticalHit => assessment[1].safety_status = "MODERATE_RISK"

\* C18: a hit set of exactly one critical-weight hit is scored 0.8, which
\* the inclusive threshold reports with status SAFE.
C18_OneCriticalIsSafe ==
    OneCriticalHit =>
        /\ assessment[1].safety_score = 800
        /\ assessment[1].safety_status = "SAFE"
        /\ assessment[1].total_issues = 1

\* one critical hit given to the scoring, and scored
C18_Witness ==
    /\ OneCriticalHit
    /\ analyzed = None
    /\ hits = << Hit("CRITICAL") >>


\* the issues with the k-th replaced by an issue of the level
Raised(issues, k, level) == [issues EXCEPT ![k] = Hit(level)]

\* C19: the score never rises with more or graver hits: for every hit list H
\* and hit h of any severity, score(H + [h]) <= score(H), and replacing a
\* hit by one of higher severity never increases the score.
C19_ScoreMonotone ==
    assessment # None =>
        /\ \A level \in DOMAIN RiskLevel :
                _calculate_safety_score(Append(hits, Hit(level))) <= assessment[1].safety_score
        /\ \A k \in 1..Len(hits) : \A level \in DOMAIN RiskLevel :
                RiskLevel[level] > RiskLevel[hits[k].risk_level] =>
                    _calculate_safety_score(Raised(hits, k, level)) <= assessment[1].safety_score

\* a scored list with a low hit, where one more hit and a graver hit in the
\* place of the low one both lower the score
C19_Witness ==
    /\ assessment # None
    /\ analyzed = None
    /\ \E k \in 1..Len(hits) :
            /\ hits[k].risk_level = "LOW"
            /\ _calculate_safety_score(Raised(hits, k, "HIGH")) < assessment[1].safety_score
    /\ _calculate_safety_score(Append(hits, Hit("MEDIUM"))) < assessment[1].safety_score


\* C20: the answer's risk level and summary come from the violations the
\* call returned and from nothing else: CRITICAL if one of them is critical,
\* else HIGH if one is high, else MEDIUM if there is any (medium and low
\* ones only), else LOW; and the four counts of the summary add up to the
\* number of returned violations.
C20_RiskLevelAndSummary ==
    Evaluated =>
        LET violations == last.ret.value
            answer == response[1]
            Found(severity) == \E k \in 1..Len(violations) : violations[k].severity = severity
        IN  /\ answer.risk_level =
                    (IF Found("critical") THEN "CRITICAL"
                     ELSE IF Found("high") THEN "HIGH"
                     ELSE IF violations # <<>> THEN "MEDIUM"
                     ELSE "LOW")
            /\ answer.risk_level = "MEDIUM" =>
                    \A k \in 1..Len(violations) : violations[k].severity \in {"medium", "low"}
            /\ \A severity \in PolicySeverity :
                    answer.summary[severity] = CountSeverity(violations, severity)
            /\ answer.summary.critical + answer.summary.high
                    + answer.summary.medium + answer.summary.low = Len(violations)
            /\ answer.total_violations = Len(violations)

\* a call that returned only medium or low violations and is answered MEDIUM,
\* on an engine whose history holds a critical or high violation of an
\* earlier call
C20_Witness ==
    /\ Evaluated
    /\ last.ret.value # <<>>
    /\ response[1].risk_level = "MEDIUM"
    /\ \E k \in 1..Len(violation_history) : violation_history[k].severity \in {"critical", "high"}


\* the last n entries of a sequence
LastN(s, n) == SubSeq(s, Len(s) - n + 1, Len(s))

\* C21: two consecutive evaluate calls on one engine with the same code, file
\* path and context, the store not written in between, return content-equal
\* lists (same length, fields and order), and the history grows by both: it
\* ends with the list twice over.
C21_EvaluateIdempotent ==
    [][(/\ last.op = "analyze_code"
        /\ last.ret.raised = ""
        /\ last'.op = "analyze_code"
        /\ last'.arg = last.arg)
            => /\ rules' = rules
               /\ last'.ret = last.ret
               /\ violation_history' = violation_history \o last.ret.value
               /\ Len(violation_history') >= 2 * Len(last.ret.value)
               /\ LastN(violation_history', 2 * Len(last.ret.value))
                        = last.ret.value \o last.ret.value]_vars

\* a call that returned violations for a file path and a context, after a
\* call that left the same list at the end of the history
C21_Witness ==
    /\ Evaluated
    /\ last.ret.value # <<>>
    /\ last.arg.file_path # None
    /\ Len(violation_history) >= 2 * Len(last.ret.value)
    /\ LastN(violation_history, 2 * Len(last.ret.value)) = last.ret.value \o last.ret.value


RECURSIVE SumOf(_)
\* the sum of the values of a function with a finite domain
SumOf(f) ==
    IF DOMAIN f = {} THEN 0
    ELSE LET x == CHOOSE y \in DOMAIN f : TRUE
         IN  f[x] + SumOf([y \in DOMAIN f \ {x} |-> f[y]])

\* report() agrees with the history it is taken of
ReportConsistent(history) ==
    LET report == generate_violation_report(history)
        groups == report.violations_by_category
        recent == report.recent_violations
        n == IF Len(history) < 10 THEN Len(history) ELSE 10
    IN  /\ report.summary.total_violations = Len(history)
        /\ report.summary.critical + report.summary.high
                + report.summary.medium + report.summary.low = Len(history)
        /\ SumOf(report.violations_by_rule) = Len(history)
        /\ \A id \in DOMAIN report.violations_by_rule :
                report.violations_by_rule[id] = Len(OfRule(history, id))
        /\ SumOf([c \in DOMAIN groups |-> Len(groups[c])]) = Len(history)
        /\ \A k \in 1..Len(history) : history[k].policy_category \in DOMAIN groups
        /\ \A c \in DOMAIN groups :
                LET members == SelectSeq(history, LAMBDA v : v.policy_category = c)
                IN  /\ Len(groups[c]) = Len(members)
                    /\ \A j \in 1..Len(members) :
                            /\ groups[c][j].rule_id = members[j].rule_id
                            /\ groups[c][j].description = members[j].description
        /\ Len(recent) = n
        /\ \A j \in 1..n :
                LET v == history[Len(history) - n + j]
                IN  /\ recent[j].rule_name = v.rule_name
                    /\ recent[j].severity = v.severity
                    /\ recent[j].description = v.description
                    /\ recent[j].line_number = v.line_number

\* C22: in every reachable state report() is consistent with the history:
\* the total is the history's length, the four severity counts and the
\* per-rule counts each sum to it, the category groups hold every entry
\* exactly once, and the recent list is the last min(10, length) entries in
\* insertion order; report() and the two queries leave the history unchanged.
C22_ReportConsistent ==
    /\ [](/\ ReportConsistent(violation_history)
          /\ last.op = "generate_violation_report"
                => last.ret = generate_violation_report(violation_history))
    /\ [][last'.op \in {"generate_violation_report", "get_violations_by_severity",
                        "get_violations_by_category"}
            => violation_history' = violation_history]_vars

\* a report taken of a history of more than ten entries, of several rules
\* and categories
C22_Witness ==
    /\ last.op = "generate_violation_report"
    /\ Len(violation_history) > 10
    /\ Cardinality(DOMAIN last.ret.violations_by_rule) >= 2
    /\ Cardinality(DOMAIN last.ret.violations_by_category) >= 2
    /\ Len(last.ret.recent_violations) = 10


\* two stores hold the same rule ids and, for each id, rules equal in every
\* field
SameStore(rs1, rs2) ==
    /\ Len(rs1) = Len(rs2)
    /\ \A i \in 1..Len(rs1) :
            /\ HasRule(rs2, rs1[i].id)
            /\ \A f \in RuleFields : RuleOf(rs2, rs1[i].id)[f] = rs1[i][f]

CallResult(call) == IF call.raised = "" THEN Ok(call.violations) ELSE Raise(call.raised)

\* C24: a call of analyze_code during which one call wrote the store has
\* returned or raised what analyze_code gives on the store as it was before
\* that write or on the store as it was after it
C24_SnapshotView ==
    \A c \in Calls :
        LET call == calls[c]
        IN  (call.pc \in {"done", "raised"} /\ Len(call.seen) = 2) =>
                LET req == call.req[1]
                IN  CallResult(call) \in
                        {analyze_code(call.seen[k], req.code, req.file_path, req.context) : k \in 1..2}

\* C25: the violations of a call that returned are one block of the history,
\* in the order the call returned them; the blocks of two calls share no
\* entry; and when no call is in progress the history holds nothing else
C25_HistoryBlocks ==
    LET Returned == {c \in Calls : calls[c].pc = "done"}
        End(c) == calls[c].at + Len(calls[c].violations)
    IN  /\ \A c \in Returned :
               /\ calls[c].at >= 1
               /\ SubSeq(violation_history, calls[c].at, End(c) - 1) = calls[c].violations
        /\ \A c, d \in Returned : c # d => End(c) <= calls[d].at \/ End(d) <= calls[c].at
        /\ (\A c \in Calls : ~InProgress(calls[c])) =>
               Len(violation_history) =
                   SumOf([c \in Calls |-> IF c \in Returned THEN Len(calls[c].violations) ELSE 0])

\* two calls of different codes were in progress at the same time and both
\* returned violations
C25_Witness ==
    /\ \A c \in Calls : calls[c].pc = "done" /\ calls[c].violations # <<>>
    /\ \E c \in Calls : calls[c].overlapped
    /\ \E c, d \in Calls : calls[c].req # calls[d].req

\* C29: the step in which a call of analyze_code raises leaves the history
\* and the store as they are, and the history holds the violations of the
\* calls that returned and no others
C29_RaiseLeavesNoTrace ==
    /\ [](Len(violation_history) =
              SumOf([c \in Calls |-> IF calls[c].at > 0 THEN Len(calls[c].violations) ELSE 0]))
    /\ [][\A c \in Calls :
              (calls[c].pc # "raised" /\ calls'[c].pc = "raised") =>
                  /\ calls'[c].at = 0
                  /\ violation_history' = violation_history
                  /\ rules' = rules]_vars

\* a call raised re.error on a pattern after earlier rules gave it violations
C29_Witness ==
    \E c \in Calls :
        /\ calls[c].pc = "raised"
        /\ calls[c].raised = "re.error"
        /\ calls[c].violations # <<>>


\* C26: on the built-in rules, a code that does none of the restricted
\* actions, such as the line that calls isoformat(), gives no violation
C26_SafeCodeClean ==
    ( /\ last.op = "analyze_code"
      /\ last.arg.code \in {CodeSafe, CodeIsoformat}
      /\ rules = DefaultRules ) =>
        last.ret = Ok(<<>>)

\* C27: with a rule that forbids the variables PROD_* and the directories
\* /etc/* in the store, the line that reads os.environ["PROD_DATABASE_URL"]
\* and the line that holds "/etc/passwd" each give a violation of that rule
C27_GlobResources ==
    ( /\ last.op = "analyze_code"
      /\ last.arg.code \in {CodeProdEnv, CodeEtcPasswd}
      /\ HasRule(rules, RuleGlobResources.id) ) =>
        /\ last.ret.raised = ""
        /\ \E k \in 1..Len(last.ret.value) : last.ret.value[k].rule_id = RuleGlobResources.id


\* C28: for a Python code, the structural scan gives one medium
\* ast_large_iteration issue for each for statement over a range of integer
\* literals whose bound (the one argument, or the second of several) is above
\* 100, and no other
C28_LoopBound ==
    (analyzed # None /\ assessment # None /\ Lower(analyzed[1].language) = "python") =>
        LET nodes == analyzed[1].code.nodes
            Bound(args) == IF Len(args) = 1 THEN args[1].value ELSE args[2].value
            Large(node) ==
                /\ node.type = "For"
                /\ Len(node.iter.args) > 0
                /\ \A k \in 1..Len(node.iter.args) : k <= 2 => node.iter.args[k].t = "Constant"
                /\ Bound(node.iter.args) > RangeThreshold
            found == SelectSeq(hits, LAMBDA issue : issue.pattern = "ast_large_iteration")
        IN  /\ Len(found) = Len(SelectSeq(nodes, Large))
            /\ \A k \in 1..Len(found) : found[k].risk_level = "MEDIUM"


\* C30: a load_policies call leaves the history as it is and a store that
\* is the six built-in rules, or holds nothing but rules parsed from the
\* entries of the configuration it read: no rule of the store before the call
\* is kept
C30_LoadReplacesStore ==
    [][(last'.op = "load_policies" /\ nops' = nops + 1) =>
            LET file == FileAt(last'.arg)
                readable == file.exists /\ file.loads.raised = "" /\ file.loads.value # None
                items == IF readable THEN Get(file.loads.value[1], "policies", <<>>) ELSE <<>>
            IN  /\ violation_history' = violation_history
                /\ \/ rules' = DefaultRules
                   \/ /\ readable
                      /\ \A k \in 1..Len(rules') :
                            \E j \in 1..Len(items) :
                                ParseRule(items[j].id, items[j].data) = Ok(rules'[k])]_vars

\* a configuration of two good rules and a malformed one was loaded into an
\* engine that held the built-in rules and an added rule that had fired: the
\* store holds the two, dangerous_libraries as the file has it, and the
\* history still holds the added rule's violation
C30_Witness ==
    /\ last.op = "load_policies"
    /\ FileAt(last.arg) = FileTeam
    /\ Len(rules) = 2
    /\ ~HasRule(rules, "custom_test_rule")
    /\ ~HasRule(rules, "prod_env_modification")
    /\ RuleOf(rules, "dangerous_libraries") # RuleOf(DefaultRules, "dangerous_libraries")
    /\ OfRule(violation_history, "custom_test_rule") # <<>>

=============================================================================
